---------------------------- MODULE Spec2Model ----------------------------
(***************************************************************************)
(* Model of the research-note application's front end.                     *)
(*                                                                         *)
(*   - the result aggregation of the Output page                          *)
(*     (src/frontend/src/app/pages/OutputPage.tsx): value normalisation,   *)
(*     the bar/line series, the scatter pairs, the box-plot statistics and *)
(*     scale, and the default field selection effect;                      *)
(*   - the result schemas of the project detail page                       *)
(*     (src/frontend/src/app/pages/ProjectDetailPage.tsx);                 *)
(*   - the material list of the experiment form                            *)
(*     (NewExperimentPage, src/unnamed/part_003 lines 280-628).            *)
(*                                                                         *)
(* JavaScript numbers are modelled as IEEE 754 doubles with NaN and the    *)
(* two infinities; JSON values are modelled as tagged records.             *)
(***************************************************************************)
EXTENDS Integers, Sequences, FiniteSets, Bags, TLC

(***************************************************************************)
(* Bounds of the model.                                                    *)
(***************************************************************************)
MaxArrLen == 5

(***************************************************************************)
(* JavaScript numbers are IEEE 754 doubles.  A finite double is            *)
(* s * m * 2^e: s is 1 or -1, m a natural number below 2^53 and e an       *)
(* integer.  m is held in limbs of 15 bits, least significant first, so    *)
(* that no intermediate result leaves the 32-bit integers; it is kept odd  *)
(* (zero is s = 1, m = <<>>, e = 0), which makes equal numbers equal       *)
(* records.  -0 is not told from +0.                                       *)
(***************************************************************************)
\* the number of binary digits of the natural number n
RECURSIVE BitsOf(_)
BitsOf(n) == IF n = 0 THEN 0 ELSE 1 + BitsOf(n \div 2)

Base == 2 ^ 15
LimbBits == BitsOf(Base - 1)
\* 52 stored bits and the hidden one
Precision == 52 + 1
\* the exponent of the least subnormal, 2^-1074
MinExp == -1022 - 52
\* every finite double is below 2^1024
MaxExp == 1023 + 1

Abs(x) == IF x < 0 THEN -x ELSE x
Max2(a, b) == IF a < b THEN b ELSE a
Min2(a, b) == IF a < b THEN a ELSE b

\* natural numbers of any size: sequences of limbs without leading zero
Limb(a, i) == IF i <= Len(a) THEN a[i] ELSE 0

RECURSIVE Strip(_)
Strip(a) ==
  IF a = <<>> THEN a
  ELSE IF a[Len(a)] # 0 THEN a ELSE Strip(SubSeq(a, 1, Len(a) - 1))

RECURSIVE NatToBig(_)
NatToBig(n) == IF n = 0 THEN <<>> ELSE <<n % Base>> \o NatToBig(n \div Base)

RECURSIVE AddLimbs(_, _, _, _)
AddLimbs(a, b, i, c) ==
  IF i > Len(a) /\ i > Len(b) THEN (IF c = 0 THEN <<>> ELSE <<c>>)
  ELSE LET t == Limb(a, i) + Limb(b, i) + c
       IN  <<t % Base>> \o AddLimbs(a, b, i + 1, t \div Base)

BigAdd(a, b) == AddLimbs(a, b, 1, 0)

\* a - b for a >= b
RECURSIVE SubLimbs(_, _, _, _)
SubLimbs(a, b, i, c) ==
  IF i > Len(a) THEN <<>>
  ELSE LET t == a[i] - Limb(b, i) - c
       IN  <<(t + Base) % Base>> \o SubLimbs(a, b, i + 1, IF t < 0 THEN 1 ELSE 0)

BigSub(a, b) == Strip(SubLimbs(a, b, 1, 0))

\* -1, 0, 1 as a < b, a = b, a > b
RECURSIVE CmpLimbs(_, _, _)
CmpLimbs(a, b, i) ==
  IF i = 0 THEN 0
  ELSE IF a[i] < b[i] THEN -1
  ELSE IF a[i] > b[i] THEN 1
  ELSE CmpLimbs(a, b, i - 1)

BigCmp(a, b) ==
  IF Len(a) < Len(b) THEN -1
  ELSE IF Len(a) > Len(b) THEN 1
  ELSE CmpLimbs(a, b, Len(a))

\* a * k + c for limbs k and c
RECURSIVE MulLimbs(_, _, _, _)
MulLimbs(a, k, i, c) ==
  IF i > Len(a) THEN (IF c = 0 THEN <<>> ELSE <<c>>)
  ELSE LET t == a[i] * k + c
       IN  <<t % Base>> \o MulLimbs(a, k, i + 1, t \div Base)

BigMulSmall(a, k) == Strip(MulLimbs(a, k, 1, 0))

ShiftLimbs(a, n) == IF a = <<>> THEN a ELSE [i \in 1..n |-> 0] \o a

RECURSIVE BigMul(_, _)
BigMul(a, b) ==
  IF b = <<>> THEN <<>>
  ELSE BigAdd(BigMulSmall(a, Head(b)), ShiftLimbs(BigMul(a, Tail(b)), 1))

\* a * 2^n
BigShl(a, n) == ShiftLimbs(BigMulSmall(a, 2 ^ (n % LimbBits)), n \div LimbBits)

\* floor(a / 2^n)
BigShr(a, n) ==
  LET w == n \div LimbBits
      p == 2 ^ (n % LimbBits)
      q == Base \div p
  IN  Strip([i \in 1..Max2(0, Len(a) - w) |->
               (a[i + w] \div p) + (Limb(a, i + w + 1) % p) * q])

\* the number of bits of a: 2^(BitLen(a) - 1) <= a < 2^BitLen(a)
BitLen(a) == IF a = <<>> THEN 0 ELSE LimbBits * (Len(a) - 1) + BitsOf(a[Len(a)])

\* bit i of a, bit 0 the lowest
Bit(a, i) == (Limb(a, (i \div LimbBits) + 1) \div (2 ^ (i % LimbBits))) % 2

\* the n lowest bits of a are 0
LowZero(a, n) ==
  /\ \A i \in 1..(n \div LimbBits) : Limb(a, i) = 0
  /\ Limb(a, (n \div LimbBits) + 1) % (2 ^ (n % LimbBits)) = 0

\* the number of zero bits below the lowest 1 of a # 0: n counts the zero
\* limbs passed and x is what is left of the first limb that is not 0
RECURSIVE ZeroBits(_)
ZeroBits(x) == IF x % 2 = 1 THEN 0 ELSE 1 + ZeroBits(x \div 2)

RECURSIVE TrailingZeros(_, _)
TrailingZeros(a, i) ==
  IF a[i] = 0 THEN LimbBits + TrailingZeros(a, i + 1) ELSE ZeroBits(a[i])

\* the greatest d in lo..hi with b * d <= r
RECURSIVE Digit(_, _, _, _)
Digit(r, b, lo, hi) ==
  IF lo = hi THEN lo
  ELSE LET mid == (lo + hi + 1) \div 2
       IN  IF BigCmp(BigMulSmall(b, mid), r) <= 0
           THEN Digit(r, b, mid, hi)
           ELSE Digit(r, b, lo, mid - 1)

\* long division: <<floor(A / b), A % b>> for the number A made of the
\* limbs of a from limb i up, and b whose highest limb is 2^14 or more.
\* The digit d of the quotient lies between the quotients of the two
\* highest limbs of the remainder by the highest limb of b, taken as it
\* is and one more.
RECURSIVE DivLimbs(_, _, _)
DivLimbs(a, b, i) ==
  IF i > Len(a) THEN <<<<>>, <<>>>>
  ELSE LET up == DivLimbs(a, b, i + 1)
           r  == Strip(<<a[i]>> \o up[2])
           n  == Len(b)
           rt == Limb(r, n + 1) * Base + Limb(r, n)
           d  == Digit(r, b, rt \div (b[n] + 1), Min2(Base - 1, rt \div b[n]))
       IN  <<Strip(<<d>> \o up[1]), BigSub(r, BigMulSmall(b, d))>>

\* <<floor(a / b), a % b # 0>> for b > 0: both are scaled by the power of
\* 2 that brings the highest limb of b to 2^14 or more
BigDiv(a, b) ==
  LET z  == LimbBits - BitsOf(b[Len(b)])
      qr == DivLimbs(BigShl(a, z), BigShl(b, z), 1)
  IN  <<qr[1], qr[2] # <<>>>>

NaN    == [k |-> "nan", s |-> 1, m |-> <<>>, e |-> 0]
PosInf == [k |-> "inf", s |-> 1, m |-> <<>>, e |-> 0]
NegInf == [k |-> "inf", s |-> -1, m |-> <<>>, e |-> 0]
Zero   == [k |-> "fin", s |-> 1, m |-> <<>>, e |-> 0]

isNaN(x) == x.k = "nan"
isFinite(x) == x.k = "fin"

\* the double s * M * 2^e for M of at most 53 bits and e >= -1074
Double(s, M, e) ==
  IF M = <<>> THEN Zero
  ELSE IF BitLen(M) + e > MaxExp THEN (IF s < 0 THEN NegInf ELSE PosInf)
  ELSE LET z == TrailingZeros(M, 1)
       IN  [k |-> "fin", s |-> s, m |-> BigShr(M, z), e |-> e + z]

\* the double nearest to s * (M + f) * 2^e, ties to even, where 0 <= f < 1
\* and f > 0 exactly when sticky
Round(s, M, e, sticky) ==
  LET drop == Max2(0, Max2(BitLen(M) - Precision, MinExp - e))
  IN  IF drop = 0 THEN Double(s, M, e)
      ELSE LET kept == BigShr(M, drop)
               half == Bit(M, drop - 1) = 1
               rest == sticky \/ ~LowZero(M, drop - 1)
               up   == half /\ (rest \/ Bit(kept, 0) = 1)
           IN  Double(s, IF up THEN BigAdd(kept, <<1>>) ELSE kept, e + drop)

\* the double nearest to s * (N / D) * 2^e for natural numbers N and D > 0
Quotient(s, N, D, e) ==
  IF N = <<>> THEN Zero
  ELSE LET k  == Max2(0, Precision + 2 + BitLen(D) - BitLen(N))
           qr == BigDiv(BigShl(N, k), D)
       IN  Round(s, qr[1], e - k, qr[2])

\* the number i
Int2Num(i) == Double(IF i < 0 THEN -1 ELSE 1, NatToBig(Abs(i)), 0)

\* the number a decimal literal of value n / d denotes (0.1 is Fin(1, 10))
Fin(n, d) ==
  Quotient(IF (n < 0) # (d < 0) THEN -1 ELSE 1, NatToBig(Abs(n)), NatToBig(Abs(d)), 0)

\* the number literals of the code
One == Int2Num(1)
Two == Int2Num(2)
Hundred == Int2Num(100)
Num160 == Int2Num(160)
Num180 == Int2Num(180)
OneTenth == Fin(1, 10)
OneHalf == Fin(1, 2)

IsZero(x) == x.k = "fin" /\ x.m = <<>>

\* -x
NumNeg(x) == IF x.k = "nan" \/ IsZero(x) THEN x ELSE [x EXCEPT !.s = -x.s]

\* -1, 0, 1 as |x| < |y|, |x| = |y|, |x| > |y| on finite numbers
CmpMag(x, y) ==
  IF x.m = <<>> \/ y.m = <<>>
  THEN (IF x.m = y.m THEN 0 ELSE IF x.m = <<>> THEN -1 ELSE 1)
  ELSE LET tx == BitLen(x.m) + x.e
           ty == BitLen(y.m) + y.e
           e  == Min2(x.e, y.e)
       IN  IF tx < ty THEN -1
           ELSE IF tx > ty THEN 1
           ELSE BigCmp(BigShl(x.m, x.e - e), BigShl(y.m, y.e - e))

\* x < y on finite numbers
NumLt(x, y) ==
  IF x.s # y.s THEN x.s < y.s
  ELSE IF x.s > 0 THEN CmpMag(x, y) < 0 ELSE CmpMag(x, y) > 0

\* the exponent of the highest bit of a finite x # 0, plus one
Top(x) == BitLen(x.m) + x.e

\* x + y for finite x and y # 0 with |y| < |x| * 2^-55: y only tells on
\* which side of x the sum lies
Beside(x, y) ==
  LET sh == Precision + 2 - BitLen(x.m)
      M  == BigShl(x.m, sh)
  IN  Round(x.s, IF x.s = y.s THEN M ELSE BigSub(M, <<1>>), x.e - sh, TRUE)

\* x + y of JavaScript
NumAdd(x, y) ==
  IF x.k = "nan" \/ y.k = "nan" THEN NaN
  ELSE IF x.k = "inf" /\ y.k = "inf" THEN (IF x.s = y.s THEN x ELSE NaN)
  ELSE IF x.k = "inf" THEN x
  ELSE IF y.k = "inf" THEN y
  ELSE IF x.m = <<>> THEN y
  ELSE IF y.m = <<>> THEN x
  ELSE IF Top(x) > Top(y) + Precision + 2 THEN Beside(x, y)
  ELSE IF Top(y) > Top(x) + Precision + 2 THEN Beside(y, x)
  ELSE LET e == Min2(x.e, y.e)
           X == BigShl(x.m, x.e - e)
           Y == BigShl(y.m, y.e - e)
           c == BigCmp(X, Y)
       IN  IF x.s = y.s THEN Round(x.s, BigAdd(X, Y), e, FALSE)
           ELSE IF c = 0 THEN Zero
           ELSE IF c > 0 THEN Round(x.s, BigSub(X, Y), e, FALSE)
           ELSE Round(y.s, BigSub(Y, X), e, FALSE)

\* x - y of JavaScript
NumSub(x, y) == NumAdd(x, NumNeg(y))

\* x * y of JavaScript
NumMul(x, y) ==
  IF x.k = "nan" \/ y.k = "nan" THEN NaN
  ELSE IF x.k = "fin" /\ y.k = "fin"
  THEN Round(x.s * y.s, BigMul(x.m, y.m), x.e + y.e, FALSE)
  ELSE IF IsZero(x) \/ IsZero(y) THEN NaN
  ELSE IF x.s = y.s THEN PosInf ELSE NegInf

\* x / y of JavaScript
NumDiv(x, y) ==
  IF x.k = "nan" \/ y.k = "nan" THEN NaN
  ELSE IF x.k = "inf" /\ y.k = "inf" THEN NaN
  ELSE IF x.k = "inf" THEN (IF x.s = y.s THEN PosInf ELSE NegInf)
  ELSE IF y.k = "inf" THEN Zero
  ELSE IF y.m = <<>> THEN (IF x.m = <<>> THEN NaN ELSE IF x.s > 0 THEN PosInf ELSE NegInf)
  ELSE IF y.m = <<1>> THEN Round(x.s * y.s, x.m, x.e - y.e, FALSE)
  ELSE Quotient(x.s * y.s, x.m, y.m, x.e - y.e)

\* x / c of JavaScript for a positive integer c (an array length)
NumDivInt(x, c) == NumDiv(x, Int2Num(c))

\* x < y of JavaScript
NumLess(x, y) ==
  IF x.k = "nan" \/ y.k = "nan" THEN FALSE
  ELSE IF x.k = "fin" /\ y.k = "fin" THEN NumLt(x, y)
  ELSE IF x.k = "inf" /\ y.k = "inf" THEN x.s < y.s
  ELSE IF x.k = "inf" THEN x.s < 0
  ELSE y.s > 0

NumLeq(x, y) == ~isNaN(x) /\ (x = y \/ NumLess(x, y))

(***************************************************************************)
(* JSON values: result_values and what is found under result_values[key].  *)
(* A scalar is a record [t, num, str]; an array is [t |-> "array",         *)
(* arr |-> <<values>>]; an object is [t |-> "object", obj |-> its fields]. *)
(***************************************************************************)
Undefined == [t |-> "undefined", num |-> NaN, str |-> "", arr |-> <<>>]
Null      == [t |-> "null", num |-> NaN, str |-> "", arr |-> <<>>]
JNumber(x) == [t |-> "number", num |-> x, str |-> "", arr |-> <<>>]
JNum(i)   == JNumber(Int2Num(i))
JStr(s)   == [t |-> "string", num |-> NaN, str |-> s, arr |-> <<>>]
JArr(a)   == [t |-> "array", num |-> NaN, str |-> "", arr |-> a]
JBool(b)  == [t |-> "boolean", num |-> NaN, str |-> IF b THEN "true" ELSE "false", arr |-> <<>>]
JObj(f)   == [t |-> "object", num |-> NaN, str |-> "", arr |-> <<>>, obj |-> f]

(***************************************************************************)
(* The result values the charts are computed over.                         *)
(***************************************************************************)
\* result_values of one experiment
ResultRows ==
  { [a |-> JArr(<<JNum(2), JNum(4)>>),          b |-> JNum(1)],
    [a |-> JStr("bad"),                         b |-> Undefined],
    [a |-> JArr(<<JNum(1), JNum(1), JNum(2)>>), b |-> JStr("5")],
    [a |-> JStr(""),                            b |-> JArr(<<>>)],
    [a |-> Null,                                b |-> JArr(<<Null, JStr("x")>>)],
    [a |-> JNum(3),                             b |-> JNum(3)],
    [a |-> JStr(""),                            b |-> JNum(1)] }

\* 10^16, where the doubles are 2 apart
E16 == NumMul(Int2Num(100000000), Int2Num(100000000))

\* result_values of one experiment of the box plot
BoxRows ==
  { [a |-> JArr(<<JNum(2), JNum(4)>>),          b |-> JNum(1)],
    [a |-> JStr("bad"),                         b |-> Undefined],
    [a |-> JArr(<<JNum(1), JNum(1), JNum(2)>>), b |-> JStr("5")],
    [a |-> JStr(""),                            b |-> JArr(<<>>)],
    [a |-> JNum(3),                             b |-> JNum(3)],
    [a |-> JStr("Infinity"),                    b |-> JArr(<<JNum(10), JNum(10)>>)],
    [a |-> JNumber(E16),                        b |-> JNum(1)],
    [a |-> JArr(<<JStr("-Infinity"), JStr("Infinity")>>), b |-> JNum(3)] }

EmptyObject == [k \in {} |-> Undefined]

\* result_values of one experiment: absent, null, or an object
ShapeRows ==
  { Undefined,
    Null,
    JObj([a |-> JNum(2)]),
    JObj([a |-> Null, b |-> JArr(<<JStr("x"), JNum(4), JBool(TRUE)>>)]),
    JObj([a |-> JArr(<<JArr(<<JNum(1), JNum(2)>>), JArr(<<JNum(5)>>), JObj(EmptyObject)>>),
          b |-> JObj(EmptyObject)]),
    JObj([a |-> JArr(<<>>), b |-> JStr("x")]),
    JObj([a |-> JObj([toString |-> JNum(1)]), b |-> JNum(1)]),
    JObj([a |-> JNum(3), b |-> JArr(<<JNum(2), JObj([toString |-> JNum(1)])>>)]) }

\* Number(s) of JavaScript on the string literals of the model: white space
\* around the numeral is skipped, and a string of white space only gives 0
StringToNumber(s) ==
  CASE s = ""         -> Int2Num(0)
    [] s = " "        -> Int2Num(0)
    [] s = "2"        -> Two
    [] s = "5"        -> Int2Num(5)
    [] s = " 5"       -> Int2Num(5)
    [] s = "1.5"      -> Fin(3, 2)
    [] s = "Infinity" -> PosInf
    [] s = "-Infinity" -> NegInf
    [] OTHER          -> NaN

\* the TypeError a conversion throws ("Cannot convert object to primitive
\* value"), as the outcome of the computation it leaves
TypeError == [k |-> "throw", s |-> 1, m |-> <<>>, e |-> 0]

\* whether the conversion of v to a primitive throws.  A parsed JSON object
\* is converted by its toString and valueOf: an own toString is a JSON
\* value and cannot be called, the valueOf it inherits returns the object
\* itself and an own valueOf cannot be called, so the conversion throws
\* exactly when the object has a toString of its own.  An array is
\* converted by the join of its elements, which converts each element
\* but null and undefined.
RECURSIVE ToPrimitiveThrows(_)
ToPrimitiveThrows(v) ==
  CASE v.t = "object" -> "toString" \in DOMAIN v.obj
    [] v.t = "array"  -> \E i \in 1..Len(v.arr) : ToPrimitiveThrows(v.arr[i])
    [] OTHER          -> FALSE

\* Number(v) of JavaScript.  An array is converted through its string, the
\* join of its elements with ",": the empty array gives "" and so 0, an
\* array of one element gives what the string of that element gives (""
\* for null and undefined, "true" / "false" for a boolean, "[object Object]"
\* for an object without a toString of its own), a longer array gives a
\* string with a comma and so NaN.  A value whose conversion to a primitive
\* throws makes Number throw.
RECURSIVE Number(_)
Number(v) ==
  CASE ToPrimitiveThrows(v) -> TypeError
    [] v.t = "undefined" -> NaN
    [] v.t = "null"      -> Int2Num(0)
    [] v.t = "number"    -> v.num
    [] v.t = "string"    -> StringToNumber(v.str)
    [] v.t = "boolean"   -> IF v.str = "true" THEN One ELSE Int2Num(0)
    [] v.t = "array"     ->
         IF Len(v.arr) = 0 THEN Int2Num(0)
         ELSE IF Len(v.arr) > 1 THEN NaN
         ELSE LET e == v.arr[1]
              IN  CASE e.t \in {"undefined", "null"} -> Int2Num(0)
                    [] e.t = "boolean"               -> NaN
                    [] OTHER                         -> Number(e)
    [] OTHER             -> NaN

\* v ?? NaN
OrNaN(v) == IF v.t \in {"undefined", "null"} THEN NaN ELSE Number(v)

RECURSIVE MapNumber(_)
MapNumber(a) ==
  IF a = <<>> THEN <<>> ELSE <<Number(Head(a))>> \o MapNumber(Tail(a))

NotNaN(x) == ~isNaN(x)

RECURSIVE SumNums(_)
SumNums(a) == IF a = <<>> THEN Int2Num(0) ELSE NumAdd(SumNums(SubSeq(a, 1, Len(a) - 1)), a[Len(a)])

\* extractValues of boxPlotSeries; val.map((v) => Number(v)) throws when
\* Number throws for an element
extractValues(val) ==
  IF val.t = "array"
  THEN (IF \E i \in 1..Len(val.arr) : ToPrimitiveThrows(val.arr[i]) THEN TypeError
        ELSE SelectSeq(MapNumber(val.arr), NotNaN))
  ELSE LET num == OrNaN(val)
       IN  IF num = TypeError THEN TypeError
           ELSE IF isNaN(num) THEN <<>> ELSE <<num>>

\* nums of toNumericSummary: the samples its array branch averages
summaryNums(value) ==
  IF value.t = "array" THEN SelectSeq(MapNumber(value.arr), NotNaN) ELSE <<>>

toNumericSummary(value) ==
  IF value.t = "array"
  THEN (IF \E i \in 1..Len(value.arr) : ToPrimitiveThrows(value.arr[i]) THEN TypeError
        ELSE LET nums == summaryNums(value)
             IN  IF Len(nums) = 0 THEN NaN ELSE NumDivInt(SumNums(nums), Len(nums)))
  ELSE OrNaN(value)

\* the values found under a key of the charted result values, and their
\* summaries computed once
KnownValues ==
  UNION { {r.a, r.b} : r \in ResultRows \cup BoxRows }
    \cup UNION { {r.obj[k] : k \in DOMAIN r.obj} : r \in {x \in ShapeRows : x.t = "object"} }

KnownSummaries == [v \in KnownValues |-> toNumericSummary(v)] @@ <<>>

\* toNumericSummary(value), looked up where it is known
summaryOf(value) ==
  IF value \in KnownValues THEN KnownSummaries[value] ELSE toNumericSummary(value)


(***************************************************************************)
(* State.                                                                  *)
(*   normIn, normOut, normSum, normPc : one raw value, the samples         *)
(*       extractValues gives for it, its toNumericSummary, and whether     *)
(*       the two have been computed.                                       *)
(***************************************************************************)
VARIABLES normIn, normOut, normSum, normPc

normVars == <<normIn, normOut, normSum, normPc>>

(***************************************************************************)
(* Raw values of the normaliser's specification.                           *)
(***************************************************************************)
\* elements an array value may hold
ArrayElems == {JNum(1), JNum(3), JStr("2"), JStr("x"), Null}

\* scalar values of result_values[key]
Scalars ==
  {Undefined, Null, JNum(0), JNum(1), JNum(3), JStr(""), JStr(" "), JStr("2"),
   JStr("5"), JStr("1.5"), JStr("x"), JStr("bad"), JStr("Infinity")}

RECURSIVE SeqsUpTo(_, _)
SeqsUpTo(S, n) ==
  IF n = 0 THEN {<<>>}
  ELSE LET prev == SeqsUpTo(S, n - 1)
       IN  prev \cup {Append(q, x) : q \in {p \in prev : Len(p) = n - 1}, x \in S}

RawValues == Scalars \cup {JArr(a) : a \in SeqsUpTo(ArrayElems, MaxArrLen)}

NormIdle ==
  /\ normIn = Undefined
  /\ normOut = <<>>
  /\ normSum = NaN
  /\ normPc = "idle"

\* the normaliser applied to the raw value
Normalize ==
  /\ normPc = "input"
  /\ normOut' = extractValues(normIn)
  /\ normSum' = toNumericSummary(normIn)
  /\ normPc' = "done"
  /\ UNCHANGED normIn


(***************************************************************************)
(* The Output page: its React state.                                       *)
(*   schemas, experiments, included : the fetched data                     *)
(*   selectedExpIds                 : ids of the experiments charted       *)
(*   barKey .. scatterYKey          : the key selected for each chart      *)
(*   selPc, prevSel : position of the default-selection effect and the     *)
(*       selection it found when it ran                                    *)
(***************************************************************************)
VARIABLES schemas, experiments, included, selectedExpIds,
          barKey, lineKey, boxKey, scatterXKey, scatterYKey,
          selPc, prevSel

keyVars == <<barKey, lineKey, boxKey, scatterXKey, scatterYKey>>
outVars == <<schemas, experiments, included, selectedExpIds, keyVars, selPc, prevSel>>

MaxExps == 2
MaxSchemas == 3

Range(q) == {q[i] : i \in 1..Len(q)}

RECURSIVE Reverse(_)
Reverse(q) == IF q = <<>> THEN <<>> ELSE Append(Reverse(Tail(q)), Head(q))

RECURSIVE MapKey(_)
MapKey(q) == IF q = <<>> THEN <<>> ELSE <<Head(q).key>> \o MapKey(Tail(q))

RECURSIVE MapId(_)
MapId(q) == IF q = <<>> THEN <<>> ELSE <<Head(q).id>> \o MapId(Tail(q))

\* Array.prototype.sort((a, b) => a.order - b.order): a stable sort
RECURSIVE InsertByOrder(_, _)
InsertByOrder(x, q) ==
  IF q = <<>> THEN <<x>>
  ELSE IF Head(q).order <= x.order
       THEN <<Head(q)>> \o InsertByOrder(x, Tail(q))
       ELSE <<x>> \o q

RECURSIVE SortByOrder(_)
SortByOrder(q) ==
  IF q = <<>> THEN <<>>
  ELSE InsertByOrder(q[Len(q)], SortByOrder(SubSeq(q, 1, Len(q) - 1)))

IsIncluded(s) == s.key \in Range(included)
IsQuantitative(s) == s.value_type = "quantitative"

includedSchemas == SortByOrder(SelectSeq(schemas, IsIncluded))

quantitativeSchemas == SelectSeq(includedSchemas, IsQuantitative)

(***************************************************************************)
(* The default-selection effect.                                           *)
(***************************************************************************)
\* if (!key || !validKeys.includes(key)) setKey(validKeys[0])
defaultKey(cur, validKeys) ==
  IF cur = "" \/ cur \notin Range(validKeys) THEN validKeys[1] ELSE cur

\* mutant: scatter-Y reset to the first valid key
defaultScatterYFirst(cur, validKeys) ==
  IF cur = "" \/ cur \notin Range(validKeys) THEN validKeys[1] ELSE cur

\* if (!scatterYKey || !validKeys.includes(scatterYKey))
\*   setScatterYKey(validKeys.length > 1 ? validKeys[1] : validKeys[0])
defaultScatterY(cur, validKeys) ==
  IF cur = "" \/ cur \notin Range(validKeys)
  THEN (IF Len(validKeys) > 1 THEN validKeys[2] ELSE validKeys[1])
  ELSE cur

Selection ==
  [bar |-> barKey, line |-> lineKey, box |-> boxKey,
   x |-> scatterXKey, y |-> scatterYKey]

DefaultSelectionEffect ==
  /\ selPc = "changed"
  /\ selPc' = "settled"
  /\ prevSel' = Selection
  /\ IF Len(quantitativeSchemas) > 0
     THEN LET validKeys == MapKey(quantitativeSchemas)
          IN  /\ barKey' = defaultKey(barKey, validKeys)
              /\ lineKey' = defaultKey(lineKey, validKeys)
              /\ boxKey' = defaultKey(boxKey, validKeys)
              /\ scatterXKey' = defaultKey(scatterXKey, validKeys)
              /\ scatterYKey' = defaultScatterY(scatterYKey, validKeys)
     ELSE UNCHANGED keyVars
  /\ UNCHANGED <<schemas, experiments, included, selectedExpIds>>

(***************************************************************************)
(* Selection of the charted experiments.                                   *)
(***************************************************************************)
Without(q, id) == LET Keep(i) == i # id IN SelectSeq(q, Keep)

ToggleExpSelection(id) ==
  /\ selectedExpIds' =
       IF id \in Range(selectedExpIds)
       THEN Without(selectedExpIds, id)
       ELSE Append(selectedExpIds, id)
  /\ UNCHANGED <<schemas, experiments, included, keyVars, selPc, prevSel>>

SelectAllExps ==
  /\ selectedExpIds' = MapId(experiments)
  /\ UNCHANGED <<schemas, experiments, included, keyVars, selPc, prevSel>>

DeselectAllExps ==
  /\ selectedExpIds' = <<>>
  /\ UNCHANGED <<schemas, experiments, included, keyVars, selPc, prevSel>>

(***************************************************************************)
(* The chart selects: each offers "" and the keys of quantitativeSchemas.  *)
(***************************************************************************)
KeyOptions == {""} \cup Range(MapKey(quantitativeSchemas))

SetBarKey(k) ==
  /\ barKey' = k
  /\ UNCHANGED <<schemas, experiments, included, selectedExpIds,
                 lineKey, boxKey, scatterXKey, scatterYKey, selPc, prevSel>>

SetLineKey(k) ==
  /\ lineKey' = k
  /\ UNCHANGED <<schemas, experiments, included, selectedExpIds,
                 barKey, boxKey, scatterXKey, scatterYKey, selPc, prevSel>>

SetScatterXKey(k) ==
  /\ scatterXKey' = k
  /\ UNCHANGED <<schemas, experiments, included, selectedExpIds,
                 barKey, lineKey, boxKey, scatterYKey, selPc, prevSel>>

SetScatterYKey(k) ==
  /\ scatterYKey' = k
  /\ UNCHANGED <<schemas, experiments, included, selectedExpIds,
                 barKey, lineKey, boxKey, scatterXKey, selPc, prevSel>>

(***************************************************************************)
(* The memoised chart data.                                                *)
(***************************************************************************)
IsSelected(ex) == ex.id \in Range(selectedExpIds)

visibleExperiments == SelectSeq(experiments, IsSelected)

\* ex.result_values?.[key]: undefined when result_values is null or
\* undefined, and when it has no such property
valueAt(ex, key) ==
  IF ex.result_values.t \in {"undefined", "null"} THEN Undefined
  ELSE IF ex.result_values.t = "object" /\ key \in DOMAIN ex.result_values.obj
       THEN ex.result_values.obj[key]
       ELSE Undefined

RECURSIVE MapSummary(_, _)
MapSummary(q, key) ==
  IF q = <<>> THEN <<>>
  ELSE <<[name |-> Head(q).name, value |-> summaryOf(valueAt(Head(q), key))]>>
       \o MapSummary(Tail(q), key)

ValueNotNaN(d) == ~isNaN(d.value)

\* mutant: the series left in the visible-experiment order
getChartDataUnreversed(key) ==
  IF key = "" THEN <<>>
  ELSE SelectSeq(MapSummary(visibleExperiments, key), ValueNotNaN)

\* whether getChartData(key) throws: some call of toNumericSummary does
getChartDataThrows(key) ==
  /\ key # ""
  /\ \E i \in 1..Len(visibleExperiments) :
        summaryOf(valueAt(visibleExperiments[i], key)) = TypeError

getChartData(key) ==
  IF key = "" THEN <<>>
  ELSE IF getChartDataThrows(key) THEN TypeError
  ELSE Reverse(SelectSeq(MapSummary(visibleExperiments, key), ValueNotNaN))

barData == getChartData(barKey)
lineData == getChartData(lineKey)

RECURSIVE MapPair(_, _, _)
MapPair(q, xk, yk) ==
  IF q = <<>> THEN <<>>
  ELSE <<[name |-> Head(q).name,
          x |-> summaryOf(valueAt(Head(q), xk)),
          y |-> summaryOf(valueAt(Head(q), yk))]>>
       \o MapPair(Tail(q), xk, yk)

PairNotNaN(d) == ~isNaN(d.x) /\ ~isNaN(d.y)

\* whether the computation of scatterData throws
scatterDataThrows ==
  /\ scatterXKey # "" /\ scatterYKey # ""
  /\ \E i \in 1..Len(visibleExperiments) :
        \/ summaryOf(valueAt(visibleExperiments[i], scatterXKey)) = TypeError
        \/ summaryOf(valueAt(visibleExperiments[i], scatterYKey)) = TypeError

scatterData ==
  IF scatterXKey = "" \/ scatterYKey = "" THEN <<>>
  ELSE IF scatterDataThrows THEN TypeError
  ELSE SelectSeq(MapPair(visibleExperiments, scatterXKey, scatterYKey), PairNotNaN)


(***************************************************************************)
(* The box-plot statistics.                                                *)
(***************************************************************************)
\* Array.prototype.sort((a, b) => a - b): a stable ascending sort
RECURSIVE InsertNum(_, _)
InsertNum(x, q) ==
  IF q = <<>> THEN <<x>>
  ELSE IF NumLess(x, Head(q))
       THEN <<x>> \o q
       ELSE <<Head(q)>> \o InsertNum(x, Tail(q))

RECURSIVE SortNums(_)
SortNums(q) ==
  IF q = <<>> THEN <<>>
  ELSE InsertNum(q[Len(q)], SortNums(SubSeq(q, 1, Len(q) - 1)))

\* mutant: the lower of the two middle elements for an even length
medianLowerMiddle(arr) ==
  LET mid == Len(arr) \div 2
  IN  IF Len(arr) % 2 = 0 THEN arr[mid] ELSE arr[mid + 1]

\* median of getBoxStats, on a sorted non-empty array (arr[mid] of the code
\* is arr[mid + 1] here)
median(arr) ==
  LET mid == Len(arr) \div 2
  IN  IF Len(arr) % 2 = 0
      THEN NumDiv(NumAdd(arr[mid], arr[mid + 1]), Two)
      ELSE arr[mid + 1]

\* mutant: the middle element of an odd length is left in the upper half
getBoxStatsInclusive(values) ==
  LET sorted == SortNums(values)
      mid == Len(sorted) \div 2
      lower == SubSeq(sorted, 1, mid)
      upper == SubSeq(sorted, mid + 1, Len(sorted))
  IN  [min    |-> sorted[1],
       q1     |-> IF Len(lower) # 0 THEN median(SubSeq(sorted, 1, Len(sorted) - mid)) ELSE sorted[1],
       median |-> median(sorted),
       q3     |-> IF Len(upper) # 0 THEN median(upper) ELSE sorted[Len(sorted)],
       max    |-> sorted[Len(sorted)]]

\* getBoxStats on a non-empty array of numbers
getBoxStats(values) ==
  LET sorted == SortNums(values)
      mid == Len(sorted) \div 2
      lower == SubSeq(sorted, 1, mid)
      upper == IF Len(sorted) % 2 = 0
               THEN SubSeq(sorted, mid + 1, Len(sorted))
               ELSE SubSeq(sorted, mid + 2, Len(sorted))
  IN  [min    |-> sorted[1],
       q1     |-> IF Len(lower) # 0 THEN median(lower) ELSE sorted[1],
       median |-> median(sorted),
       q3     |-> IF Len(upper) # 0 THEN median(upper) ELSE sorted[Len(sorted)],
       max    |-> sorted[Len(sorted)]]

(***************************************************************************)
(* boxPlotSeries: the shared scale and one entry per visible experiment    *)
(* that has samples for boxKey.                                            *)
(***************************************************************************)
SetBoxKey(k) ==
  /\ boxKey' = k
  /\ UNCHANGED <<schemas, experiments, included, selectedExpIds,
                 barKey, lineKey, scatterXKey, scatterYKey, selPc, prevSel>>

\* visibleExperiments.flatMap((ex) => extractValues(ex.result_values?.[boxKey]))
RECURSIVE FlatMapValues(_, _)
FlatMapValues(q, key) ==
  IF q = <<>> THEN <<>>
  ELSE extractValues(valueAt(Head(q), key)) \o FlatMapValues(Tail(q), key)

flattened == FlatMapValues(visibleExperiments, boxKey)

\* Math.max(...q) and Math.min(...q) on a non-empty array without NaN
RECURSIVE MathMax(_)
MathMax(q) ==
  IF Len(q) = 1 THEN q[1]
  ELSE LET m == MathMax(Tail(q)) IN IF NumLess(m, Head(q)) THEN Head(q) ELSE m

RECURSIVE MathMin(_)
MathMin(q) ==
  IF Len(q) = 1 THEN q[1]
  ELSE LET m == MathMin(Tail(q)) IN IF NumLess(Head(q), m) THEN Head(q) ELSE m

globalMax == MathMax(flattened)
globalMin == MathMin(flattened)

\* globalMax - globalMin || 1: 0 and NaN are falsy
range ==
  LET r == NumSub(globalMax, globalMin)
  IN  IF isNaN(r) \/ r = Int2Num(0) THEN One ELSE r

padding == NumMul(range, OneTenth)

\* mutant: no padding below the least sample
yMinUnpadded == globalMin

yMin == NumSub(globalMin, padding)
yMax == NumAdd(globalMax, padding)
yRange == NumSub(yMax, yMin)

\* 180 - ((v - lo) / rg) * 160
ScalePos(v, lo, rg) ==
  NumSub(Num180, NumMul(NumDiv(NumSub(v, lo), rg), Num160))

getPos(v) == ScalePos(v, yMin, yRange)

\* vals.length === 1 ? vals[0].toString() : `n=${vals.length}`
rawLabel(vals) ==
  IF Len(vals) = 1 THEN [single |-> TRUE, value |-> vals[1], n |-> 1]
  ELSE [single |-> FALSE, value |-> NaN, n |-> Len(vals)]

\* one entry of the series, on the scale from lo with the extent rg
boxEntry(ex, vals, lo, rg) ==
  LET stats == getBoxStats(vals)
  IN  [name |-> ex.name,
       rawLabel |-> rawLabel(vals),
       stats |-> stats,
       pos |-> [min |-> ScalePos(stats.min, lo, rg), q1 |-> ScalePos(stats.q1, lo, rg),
                median |-> ScalePos(stats.median, lo, rg), q3 |-> ScalePos(stats.q3, lo, rg),
                max |-> ScalePos(stats.max, lo, rg)]]

\* visibleExperiments.map(...).filter((d) => d !== null)
RECURSIVE MapBox(_, _, _)
MapBox(q, lo, rg) ==
  IF q = <<>> THEN <<>>
  ELSE LET vals == extractValues(valueAt(Head(q), boxKey))
       IN  (IF Len(vals) = 0 THEN <<>> ELSE <<boxEntry(Head(q), vals, lo, rg)>>)
           \o MapBox(Tail(q), lo, rg)

\* whether the computation of boxPlotSeries throws: some call of
\* extractValues in the flatMap does
boxPlotSeriesThrows ==
  /\ boxKey # "" /\ Len(visibleExperiments) # 0
  /\ \E i \in 1..Len(visibleExperiments) :
        ToPrimitiveThrows(valueAt(visibleExperiments[i], boxKey))

boxPlotSeries ==
  IF boxKey = "" \/ Len(visibleExperiments) = 0 THEN <<>>
  ELSE IF boxPlotSeriesThrows THEN TypeError
  ELSE IF Len(flattened) = 0 THEN <<>>
  ELSE MapBox(visibleExperiments, yMin, yRange)

(***************************************************************************)
(* getBoxStats on one list of samples.                                     *)
(*   statsIn, statsOut, statsPc : the samples, the statistics computed for *)
(*       them, and whether they have been computed                         *)
(***************************************************************************)
VARIABLES statsIn, statsOut, statsPc

statsVars == <<statsIn, statsOut, statsPc>>

MaxSamples == 5

NoStats == [min |-> NaN, q1 |-> NaN, median |-> NaN, q3 |-> NaN, max |-> NaN]

StatsIdle ==
  /\ statsIn = <<>>
  /\ statsOut = NoStats
  /\ statsPc = "idle"

ComputeBoxStats ==
  /\ statsPc = "input"
  /\ statsOut' = getBoxStats(statsIn)
  /\ statsPc' = "done"
  /\ UNCHANGED statsIn


(***************************************************************************)
(* Calls in flight.  A call of an async function that waits for an answer  *)
(* of the server is a record; the calls of a page form a bag.  The server  *)
(* handles a request at the moment it answers it.                          *)
(***************************************************************************)
NoPayload == [none |-> TRUE]

\* the calls a page's handlers may start in one behaviour
MaxCalls == 2

Sent(calls, c) == calls (+) SetToBag({c})
Answered(calls, c) == calls (-) SetToBag({c})
Waiting(calls, op, stage) == {c \in BagToSet(calls) : c.op = op /\ c.stage = stage}


(***************************************************************************)
(* The experiment form (NewExperimentPage).                                *)
(*   formPage            : "form" while the form is mounted, "output"      *)
(*                         after a save has navigated away                 *)
(*   experimentId        : 0 for a new experiment (null in the code), else *)
(*                         the id of the experiment being edited           *)
(*   name, author, purpose, error : the text fields and the message        *)
(*   materials           : the material lines [name, amount, ratio]; the   *)
(*                         unit of a line is carried along by the code and *)
(*                         never read, it is left out                      *)
(*   formSchemas         : the `schemas` state, the schemas fetched        *)
(*   results             : the `results` state, one value per key, the     *)
(*                         keys the object does not have being undefined   *)
(*   experimentList      : the experiments fetched                         *)
(*   formCalls           : the calls of the load effect and of onSave that *)
(*                         wait for an answer, a bag of records            *)
(*                         [op, stage, id, payload, live]; `live` says     *)
(*                         that the form that made the call is mounted     *)
(*   formStarted         : how many requests onSave has sent               *)
(*   savedExperiments    : the experiments the server stores               *)
(* A text typed into a result input is held as the sequence of its parts   *)
(* between commas: <<"2">> is "2", <<"2", "5">> is "2,5", <<"">> is the    *)
(* empty text.                                                             *)
(***************************************************************************)
VARIABLES formPage, experimentId, name, author, purpose, error,
          materials, formSchemas, results, experimentList, formCalls,
          formStarted, savedExperiments

formVars == <<formPage, experimentId, name, author, purpose, error,
              materials, formSchemas, results, experimentList, formCalls,
              formStarted, savedExperiments>>

MaxMaterials == 2
MaxSaved == 1
MaxSaves == 1

\* Number(params.projectId)
projectId == 1

MatNames == {"", "m"}
Amounts == {0, 1, 2}

LoadError == "load failed"
RequiredError == "required fields missing"
SaveError == "save failed"

\* s.trim() on the strings of the model
Trim(s) ==
  CASE s = " "  -> ""
    [] s = " 5" -> "5"
    [] OTHER    -> s

EmptyLine == [name |-> "", amount |-> 0, ratio |-> Int2Num(0)]

\* reduce((sum, m) => sum + (Number(m.amount) || 0), 0)
RECURSIVE TotalAmount(_)
TotalAmount(q) ==
  IF q = <<>> THEN 0 ELSE TotalAmount(SubSeq(q, 1, Len(q) - 1)) + q[Len(q)].amount

\* (Number(m.amount) / newTotal) * 100
ratioOf(amount, newTotal) == NumMul(NumDiv(Int2Num(amount), Int2Num(newTotal)), Hundred)

\* the ratios of the amounts a form of at most MaxMaterials lines can hold,
\* computed once: the ratio of amount a in the total t is at a * MaxTotal + t
MaxAmount == CHOOSE a \in Amounts : \A b \in Amounts : b <= a
MaxTotal == MaxMaterials * MaxAmount
KnownRatios ==
  [i \in 1..((MaxAmount + 1) * MaxTotal) |->
     ratioOf((i - 1) \div MaxTotal, ((i - 1) % MaxTotal) + 1)] \o <<>>

\* next.map(m => ({...m, ratio: newTotal > 0 ? (Number(m.amount) / newTotal) * 100 : 0}))
WithRatios(next) ==
  LET newTotal == TotalAmount(next)
  IN  [i \in 1..Len(next) |->
         [next[i] EXCEPT !.ratio =
            IF newTotal > 0
            THEN (IF next[i].amount \in 0..MaxAmount /\ newTotal <= MaxTotal
                  THEN KnownRatios[next[i].amount * MaxTotal + newTotal]
                  ELSE ratioOf(next[i].amount, newTotal))
            ELSE Int2Num(0)]]

RemoveAt(q, idx) == SubSeq(q, 1, idx - 1) \o SubSeq(q, idx + 1, Len(q))

updateMaterial(prev, idx, patch) ==
  WithRatios([i \in 1..Len(prev) |->
                IF i = idx
                THEN [name |-> IF patch.f = "name" THEN patch.name ELSE prev[i].name,
                      amount |-> IF patch.f = "amount" THEN patch.amount ELSE prev[i].amount,
                      ratio |-> prev[i].ratio]
                ELSE prev[i]])

addMaterial(prev) == Append(prev, EmptyLine)

removeMaterial(prev, idx) == WithRatios(RemoveAt(prev, idx))

\* 10^21: from there on toFixed writes the number as toString does
E21 == NumMul(Int2Num(1000000000), NumMul(Int2Num(1000000), Int2Num(1000000)))

\* Number(x.toFixed(2)): toFixed takes the integer n nearest to |x| * 100,
\* the larger one of two, and writes n / 100; Number reads the double
\* nearest to it
ToFixed2(x) ==
  IF x.k # "fin" \/ ~NumLt([x EXCEPT !.s = 1], E21) THEN x
  ELSE LET t == BigMulSmall(x.m, 100)
           n == IF x.e >= 0 THEN BigShl(t, x.e)
                ELSE BigAdd(BigShr(t, -x.e), NatToBig(Bit(t, -x.e - 1)))
       IN  Quotient(x.s, n, <<100>>, 0)

HasName(m) == Trim(m.name) # ""

\* cleanedMaterials of onSave
cleanedMaterials(ms) ==
  LET named == SelectSeq(ms, HasName)
  IN  [i \in 1..Len(named) |-> [named[i] EXCEPT !.ratio = ToFixed2(named[i].ratio)]]

\* targetExp.materials.map(m => ({name, amount: Number(m.amount), unit, ratio: Number(m.ratio)}))
recipeOf(ex) == ex.materials

(***************************************************************************)
(* The result values.                                                      *)
(***************************************************************************)
\* null as an element of an array that has been through JSON
NullNum == [k |-> "null", s |-> 1, m |-> <<>>, e |-> 0]

NullValue      == [t |-> "null", parts |-> <<>>, num |-> NaN, nums |-> <<>>]
Omitted        == [t |-> "undefined", parts |-> <<>>, num |-> NaN, nums |-> <<>>]
Text(parts)    == [t |-> "string", parts |-> parts, num |-> NaN, nums |-> <<>>]
NumberValue(x) == [t |-> "number", parts |-> <<>>, num |-> x, nums |-> <<>>]
NumberArray(q) == [t |-> "array", parts |-> <<>>, num |-> NaN, nums |-> q]

FormKeys == {"a", "b"}

\* useState<Record<string, any>>({})
NoResults == [k \in FormKeys |-> Omitted]

\* val === '' || val === null || val === undefined
isEmptyValue(val) == val.t \in {"null", "undefined"} \/ val = Text(<<"">>)

RECURSIVE MapTrim(_)
MapTrim(q) == IF q = <<>> THEN <<>> ELSE <<Trim(Head(q))>> \o MapTrim(Tail(q))

RECURSIVE MapStringToNumber(_)
MapStringToNumber(q) ==
  IF q = <<>> THEN <<>> ELSE <<StringToNumber(Head(q))>> \o MapStringToNumber(Tail(q))

NonEmptyString(v) == v # ""

\* val.split(',').map(v => v.trim()).filter(v => v !== '').map(Number).filter(v => !isNaN(v))
numArr(val) ==
  SelectSeq(MapStringToNumber(SelectSeq(MapTrim(val.parts), NonEmptyString)), NotNaN)

\* Number(val) for a text without comma, a number, or an array (an array is
\* converted through its string: [] gives 0, [null] gives 0, [x] gives x, a
\* longer one gives NaN)
numVal(val) ==
  CASE val.t = "string" -> StringToNumber(val.parts[1])
    [] val.t = "number" -> val.num
    [] val.t = "array"  ->
         IF Len(val.nums) = 0 THEN Int2Num(0)
         ELSE IF Len(val.nums) > 1 THEN NaN
         ELSE IF val.nums[1] = NullNum THEN Int2Num(0) ELSE val.nums[1]

\* the first loop: every key of results whose value is not empty is copied
copiedResult(res, key) == IF isEmptyValue(res[key]) THEN Omitted ELSE res[key]

\* the second loop, for one schema: what cleanedResults[schema.key] holds
\* after it
cleanedResult(res, schema) ==
  LET val == res[schema.key]
  IN  IF isEmptyValue(val) THEN copiedResult(res, schema.key)
      ELSE IF schema.value_type = "quantitative"
      THEN IF val.t = "string" /\ Len(val.parts) > 1
           THEN (IF Len(numArr(val)) > 0
                 THEN NumberArray(numArr(val))
                 ELSE copiedResult(res, schema.key))
           ELSE (IF ~isNaN(numVal(val))
                 THEN NumberValue(numVal(val))
                 ELSE copiedResult(res, schema.key))
      ELSE val

\* cleanedResults of onSave, schs being the schemas state
cleanedResults(res, schs) ==
  [k \in DOMAIN res |->
     IF \E i \in 1..Len(schs) : schs[i].key = k
     THEN cleanedResult(res, schs[CHOOSE i \in 1..Len(schs) : schs[i].key = k])
     ELSE copiedResult(res, k)]

\* JSON.stringify on a number: null for Infinity and -Infinity
jsonNum(x) == IF x.k = "fin" THEN x ELSE NullNum

\* a result value as the server receives it in the JSON body of the request
jsonValue(v) ==
  CASE v.t = "number" -> IF v.num.k = "fin" THEN v ELSE NullValue
    [] v.t = "array"  -> NumberArray([i \in 1..Len(v.nums) |-> jsonNum(v.nums[i])])
    [] OTHER          -> v

\* !s.trim() without the trim
IsBlankUntrimmed(s) == s = ""

IsBlank(s) == Trim(s) = ""

\* the experiment a create/update request describes, stored under id
storedFrom(id, payload) ==
  [id |-> id, project_id |-> payload.project_id, name |-> payload.name,
   author |-> payload.author, purpose |-> payload.purpose,
   materials |-> payload.materials,
   result_values |-> [k \in DOMAIN payload.result_values |->
                        jsonValue(payload.result_values[k])]]

\* createExperiment / updateExperiment on the server
StoreExperiment(store, id, payload) ==
  IF id = 0
  THEN Append(store, storedFrom(Len(store) + 1, payload))
  ELSE [i \in 1..Len(store) |->
          IF store[i].id = id THEN storedFrom(id, payload) ELSE store[i]]

LoadCall(stage, id) ==
  [op |-> "load", stage |-> stage, id |-> id, payload |-> NoPayload, live |-> TRUE]

SaveCall(id, payload) ==
  [op |-> "save", stage |-> "request", id |-> id, payload |-> payload, live |-> TRUE]

\* the calls left when the form unmounts: a load effect no longer changes
\* anything and is dropped, a save goes on without its form
Unmounted(calls) ==
  LET saves == {c \in BagToSet(calls) : c.op = "save"}
      stale == {[c EXCEPT !.live = FALSE] : c \in saves}
      Count(c) == IF c \in saves THEN calls[c] ELSE 0
  IN  [d \in stale |-> Count(d) + Count([d EXCEPT !.live = TRUE])]

\* the state of a form that is not mounted
NoForm ==
  /\ experimentId = 0
  /\ name = "" /\ author = "" /\ purpose = "" /\ error = ""
  /\ materials = <<>>
  /\ formSchemas = <<>>
  /\ results = NoResults
  /\ experimentList = <<>>

\* the form mounted for experiment id (0: a new one): the useState initial
\* values, and the load effect up to its first request
FormMounted(id) ==
  /\ formPage = "form"
  /\ experimentId = id
  /\ name = "" /\ author = "" /\ purpose = "" /\ error = ""
  /\ materials = <<EmptyLine>>
  /\ formSchemas = <<>>
  /\ results = NoResults
  /\ experimentList = <<>>
  /\ formCalls = SetToBag({LoadCall("schemas", id)})

Mount(id) ==
  /\ formPage' = "form"
  /\ experimentId' = id
  /\ name' = "" /\ author' = "" /\ purpose' = "" /\ error' = ""
  /\ materials' = <<EmptyLine>>
  /\ formSchemas' = <<>>
  /\ results' = NoResults
  /\ experimentList' = <<>>
  /\ formCalls' = Sent(formCalls, LoadCall("schemas", id))
  /\ UNCHANGED <<formStarted, savedExperiments>>

\* nav(`/projects/${projectId}/output`): the mounted form, if any, unmounts
Unmount(calls) ==
  /\ formPage' = "output"
  /\ experimentId' = 0
  /\ name' = "" /\ author' = "" /\ purpose' = "" /\ error' = ""
  /\ materials' = <<>>
  /\ formSchemas' = <<>>
  /\ results' = NoResults
  /\ experimentList' = <<>>
  /\ formCalls' = Unmounted(calls)

Patches ==
  [f : {"name"}, name : MatNames, amount : {0}]
    \cup [f : {"amount"}, name : {""}, amount : Amounts]

UpdateMaterial(idx, patch) ==
  /\ formPage = "form"
  /\ idx \in 1..Len(materials)
  /\ materials' = updateMaterial(materials, idx, patch)
  /\ UNCHANGED <<formPage, experimentId, name, author, purpose, error, formSchemas,
                 results, experimentList, formCalls, formStarted, savedExperiments>>

AddMaterial ==
  /\ formPage = "form"
  /\ Len(materials) < MaxMaterials
  /\ materials' = addMaterial(materials)
  /\ UNCHANGED <<formPage, experimentId, name, author, purpose, error, formSchemas,
                 results, experimentList, formCalls, formStarted, savedExperiments>>

RemoveMaterial(idx) ==
  /\ formPage = "form"
  /\ idx \in 1..Len(materials)
  /\ materials' = removeMaterial(materials, idx)
  /\ UNCHANGED <<formPage, experimentId, name, author, purpose, error, formSchemas,
                 results, experimentList, formCalls, formStarted, savedExperiments>>

\* the select offers the fetched experiments other than the edited one
LoadRecipeFromExperiment(i, confirmed) ==
  /\ formPage = "form"
  /\ i \in 1..Len(experimentList)
  /\ experimentList[i].id # experimentId
  /\ materials' = IF confirmed THEN recipeOf(experimentList[i]) ELSE materials
  /\ UNCHANGED <<formPage, experimentId, name, author, purpose, error, formSchemas,
                 results, experimentList, formCalls, formStarted, savedExperiments>>

SetName(v) ==
  /\ formPage = "form"
  /\ name' = v
  /\ UNCHANGED <<formPage, experimentId, author, purpose, error, materials, formSchemas,
                 results, experimentList, formCalls, formStarted, savedExperiments>>

SetAuthor(v) ==
  /\ formPage = "form"
  /\ author' = v
  /\ UNCHANGED <<formPage, experimentId, name, purpose, error, materials, formSchemas,
                 results, experimentList, formCalls, formStarted, savedExperiments>>

SetPurpose(v) ==
  /\ formPage = "form"
  /\ purpose' = v
  /\ UNCHANGED <<formPage, experimentId, name, author, error, materials, formSchemas,
                 results, experimentList, formCalls, formStarted, savedExperiments>>

\* the input of quantitative schema i: val === '' ? null : val
SetQuantitative(i, text) ==
  /\ formPage = "form"
  /\ i \in 1..Len(formSchemas)
  /\ formSchemas[i].value_type = "quantitative"
  /\ results' = [results EXCEPT ![formSchemas[i].key] =
                   IF text = Text(<<"">>) THEN NullValue ELSE text]
  /\ UNCHANGED <<formPage, experimentId, name, author, purpose, error, materials,
                 formSchemas, experimentList, formCalls, formStarted, savedExperiments>>

\* the select of categorical schema i, the input of any other schema i
SetText(i, text) ==
  /\ formPage = "form"
  /\ i \in 1..Len(formSchemas)
  /\ formSchemas[i].value_type # "quantitative"
  /\ results' = [results EXCEPT ![formSchemas[i].key] = text]
  /\ UNCHANGED <<formPage, experimentId, name, author, purpose, error, materials,
                 formSchemas, experimentList, formCalls, formStarted, savedExperiments>>

\* payload of onSave
savePayload ==
  [project_id |-> projectId, name |-> Trim(name), author |-> Trim(author),
   purpose |-> Trim(purpose), materials |-> cleanedMaterials(materials),
   result_values |-> cleanedResults(results, formSchemas)]

\* onSave up to its request
OnSave ==
  /\ formPage = "form"
  /\ IF IsBlank(name) \/ IsBlank(author) \/ IsBlank(purpose)
     THEN /\ error' = RequiredError
          /\ UNCHANGED <<formCalls, formStarted>>
     ELSE /\ formStarted < MaxSaves
          /\ formStarted' = formStarted + 1
          /\ error' = ""
          /\ formCalls' = Sent(formCalls, SaveCall(experimentId, savePayload))
  /\ UNCHANGED <<formPage, experimentId, name, author, purpose, materials, formSchemas,
                 results, experimentList, savedExperiments>>

IsStored(id) == \E i \in 1..Len(savedExperiments) : savedExperiments[i].id = id

\* err.response?.data?.detail of a rejected request: a string, or something
\* else (absent, or a list of validation errors)
NoDetail == [isString |-> FALSE, str |-> ""]
StringDetail(text) == [isString |-> TRUE, str |-> text]
Details == {NoDetail, StringDetail(""), StringDetail("name too long")}

\* createExperiment / updateExperiment answers; ok is whether the server
\* accepts the request, detail what its rejection carries.  On success
\* onSave alerts and navigates to the Output page, on failure it sets the
\* message (of a form still mounted): the detail when it is a string, the
\* fixed message otherwise.
SaveAnswered(c, ok, detail) ==
  /\ c \in Waiting(formCalls, "save", "request")
  /\ IF ok /\ (c.id = 0 \/ IsStored(c.id))
     THEN /\ savedExperiments' = StoreExperiment(savedExperiments, c.id, c.payload)
          /\ Unmount(Answered(formCalls, c))
     ELSE /\ formCalls' = Answered(formCalls, c)
          /\ error' = IF ~c.live THEN error
                      ELSE IF detail.isString THEN detail.str ELSE SaveError
          /\ UNCHANGED <<formPage, experimentId, name, author, purpose, materials,
                         formSchemas, results, experimentList, savedExperiments>>
  /\ UNCHANGED formStarted

\* listResultSchemas of the form: the schemas the server stores, by order
fetchedSchemas(stored) == SortByOrder(stored)

\* the load effect: listResultSchemas answers, stored being the schemas of
\* the project on the server
LoadSchemasAnswered(c, ok, stored) ==
  /\ c \in Waiting(formCalls, "load", "schemas")
  /\ IF ok
     THEN /\ formSchemas' = fetchedSchemas(stored)
          /\ formCalls' = Sent(Answered(formCalls, c), LoadCall("experiments", c.id))
          /\ UNCHANGED error
     ELSE /\ error' = LoadError
          /\ formCalls' = Answered(formCalls, c)
          /\ UNCHANGED formSchemas
  /\ UNCHANGED <<formPage, experimentId, name, author, purpose, materials, results,
                 experimentList, formStarted, savedExperiments>>

\* the load effect: listExperiments answers.  The only route that mounts the
\* form is experiments/new, which passes no experimentId, so c.id is 0 and
\* the effect ends here: its getExperiment request is never sent.
LoadExperimentsAnswered(c, ok) ==
  /\ c \in Waiting(formCalls, "load", "experiments")
  /\ IF ok
     THEN /\ experimentList' = savedExperiments
          /\ formCalls' = IF c.id # 0
                          THEN Sent(Answered(formCalls, c), LoadCall("experiment", c.id))
                          ELSE Answered(formCalls, c)
          /\ UNCHANGED error
     ELSE /\ error' = LoadError
          /\ formCalls' = Answered(formCalls, c)
          /\ UNCHANGED experimentList
  /\ UNCHANGED <<formPage, experimentId, name, author, purpose, materials, formSchemas,
                 results, formStarted, savedExperiments>>

\* the form opened from the Output page for a new experiment
OpenNewForm ==
  /\ formPage = "output"
  /\ Mount(0)



(***************************************************************************)
(* The project detail page (ProjectDetailPage): the result schemas of a    *)
(* project and its output config.                                          *)
(*   serverSchemas  : the schemas the server stores, in creation order     *)
(*   serverIncluded : the included_keys of the project's output config on  *)
(*                    the server                                           *)
(*   detailSchemas  : the page's `schemas` state, as last fetched          *)
(*   detailIncluded : the page's `included` state                          *)
(*   order          : the page's `order` state, the order the add form     *)
(*                    holds                                                *)
(*   detailCalls    : the calls of the page's async functions that wait    *)
(*                    for an answer of the server, a bag of records        *)
(*                    [op, stage, id, payload, keys]                       *)
(*   detailStarted  : how many calls the handlers have started             *)
(*   keyPatched     : whether some update request sent so far carried a    *)
(*                    `key` field                                          *)
(*   bareCategoricalSent : whether some create or update request sent so   *)
(*                    far describes a categorical schema with null or      *)
(*                    empty options                                        *)
(*   createdKeys    : the key each schema was created with, in the order   *)
(*                    of the ids the server has given out (1, 2, ...)      *)
(* The other fields of the add form are taken as inputs of onAddSchema and *)
(* the project name is left out.                                           *)
(***************************************************************************)
VARIABLES serverSchemas, detailSchemas, keyPatched, createdKeys,
          bareCategoricalSent, serverIncluded, detailIncluded, detailCalls,
          detailStarted, order

detailVars == <<serverSchemas, detailSchemas, keyPatched, createdKeys,
               bareCategoricalSent, serverIncluded, detailIncluded,
               detailCalls, detailStarted, order>>

\* null, for the optional unit, description and options of a schema
NullText == "null"
NullOptions == [isNull |-> TRUE, list |-> <<>>]
OptionList(q) == [isNull |-> FALSE, list |-> q]

\* text ? text.split(",").map((o) => o.trim()).filter(Boolean) : null
\* on the texts of the model
optionsFromText(text) ==
  CASE text = ""     -> NullOptions
    [] text = ","    -> OptionList(<<>>)
    [] text = "x"    -> OptionList(<<"x">>)

\* text || null
textOrNull(text) == IF text = "" THEN NullText ELSE text

\* the option onUpdateSchema supplies ("기본 선택지" in the source)
DefaultOptions == OptionList(<<"default option">>)

\* the project detail page not open
DetailClosed ==
  /\ detailSchemas = <<>>
  /\ detailIncluded = <<>>
  /\ order = 0
  /\ detailCalls = EmptyBag
  /\ detailStarted = 0
  /\ keyPatched = FALSE
  /\ bareCategoricalSent = FALSE
  /\ createdKeys = <<>>

DetailIdle ==
  /\ serverSchemas = <<>>
  /\ serverIncluded = <<>>
  /\ DetailClosed

\* listResultSchemas: the stored schemas sorted by order
listResultSchemas == SortByOrder(serverSchemas)

\* the server stores a new schema under the next id
serverCreate(payload) ==
  LET id == Len(createdKeys) + 1
  IN  Append(serverSchemas, [f \in {"id"} \cup DOMAIN payload |->
                               IF f = "id" THEN id ELSE payload[f]])

\* the server replaces the fields the payload names, and only those
serverPatch(id, payload) ==
  [i \in 1..Len(serverSchemas) |->
     IF serverSchemas[i].id = id
     THEN [f \in DOMAIN serverSchemas[i] |->
             IF f \in DOMAIN payload THEN payload[f] ELSE serverSchemas[i][f]]
     ELSE serverSchemas[i]]

serverDelete(id) ==
  LET Keep(x) == x.id # id IN SelectSeq(serverSchemas, Keep)

Stored(id) == \E j \in 1..Len(serverSchemas) : serverSchemas[j].id = id

\* the schema a request describes: the payload of a create, the row with
\* the fields of the payload replaced for an update
described(sch, payload) ==
  [f \in DOMAIN sch \cup DOMAIN payload |->
     IF f \in DOMAIN payload THEN payload[f] ELSE sch[f]]

bareCategorical(sch) ==
  /\ sch.value_type = "categorical"
  /\ (sch.options.isNull \/ Len(sch.options.list) = 0)

(***************************************************************************)
(* Calls in flight.  A call waits at `stage` "request" for the answer to   *)
(* its create, update, delete or output-config request, and then runs      *)
(* refresh, which waits in turn for getProject ("project"),                *)
(* listResultSchemas ("schemas") and getOutputConfig ("config").           *)
(***************************************************************************)
RefreshCall(stage) ==
  [op |-> "refresh", stage |-> stage, id |-> 0, payload |-> NoPayload, keys |-> <<>>]

RequestCall(op, id, payload, keys) ==
  [op |-> op, stage |-> "request", id |-> id, payload |-> payload, keys |-> keys]

\* the call goes on to refresh(), whose first request is getProject
ThenRefresh(calls, c) == Sent(Answered(calls, c), RefreshCall("project"))

\* the page as mounted: the mount effect has called refresh()
DetailMounted ==
  /\ detailSchemas = <<>>
  /\ detailIncluded = <<>>
  /\ order = 0
  /\ detailCalls = SetToBag({RefreshCall("project")})
  /\ detailStarted = 0

\* onAddSchema up to its request, the add form holding k, l, t, u, d, o and
\* the order of the page's state
OnAddSchema(k, l, t, u, d, o) ==
  IF Trim(k) = "" \/ Trim(l) = ""
  THEN UNCHANGED detailVars
  ELSE LET payload == [project_id |-> projectId,
                       key |-> Trim(k), label |-> Trim(l), value_type |-> t,
                       unit |-> textOrNull(u), description |-> textOrNull(d),
                       options |-> optionsFromText(o), order |-> order]
       IN  /\ detailStarted < MaxCalls
           /\ detailStarted' = detailStarted + 1
           /\ detailCalls' = Sent(detailCalls, RequestCall("create", 0, payload, <<>>))
           /\ bareCategoricalSent' = (bareCategoricalSent \/ bareCategorical(payload))
           /\ UNCHANGED <<serverSchemas, detailSchemas, keyPatched, createdKeys,
                          serverIncluded, detailIncluded, order>>

\* createResultSchema answers; ok is whether the server accepts the request
\* (it refuses a key already in use).  On success the add form is reset and
\* refresh() is called.
CreateAnswered(c, ok) ==
  LET accepted == /\ ok
                  /\ \A j \in 1..Len(serverSchemas) : serverSchemas[j].key # c.payload.key
  IN  /\ c \in Waiting(detailCalls, "create", "request")
      /\ IF accepted
         THEN /\ serverSchemas' = serverCreate(c.payload)
              /\ createdKeys' = Append(createdKeys, c.payload.key)
              /\ order' = 0
              /\ detailCalls' = ThenRefresh(detailCalls, c)
         ELSE /\ detailCalls' = Answered(detailCalls, c)
              /\ UNCHANGED <<serverSchemas, createdKeys, order>>
      /\ UNCHANGED <<detailSchemas, keyPatched, bareCategoricalSent, serverIncluded,
                     detailIncluded, detailStarted>>

\* onDeleteSchema up to its request
OnDeleteSchema(id, confirmed) ==
  IF ~confirmed
  THEN UNCHANGED detailVars
  ELSE /\ detailStarted < MaxCalls
       /\ detailStarted' = detailStarted + 1
       /\ detailCalls' = Sent(detailCalls, RequestCall("delete", id, NoPayload, <<>>))
       /\ UNCHANGED <<serverSchemas, detailSchemas, keyPatched, createdKeys,
                      bareCategoricalSent, serverIncluded, detailIncluded, order>>

\* deleteResultSchema answers
DeleteAnswered(c, ok) ==
  /\ c \in Waiting(detailCalls, "delete", "request")
  /\ IF ok /\ Stored(c.id)
     THEN /\ serverSchemas' = serverDelete(c.id)
          /\ detailCalls' = ThenRefresh(detailCalls, c)
     ELSE /\ detailCalls' = Answered(detailCalls, c)
          /\ UNCHANGED serverSchemas
  /\ UNCHANGED <<detailSchemas, keyPatched, createdKeys, bareCategoricalSent,
                 serverIncluded, detailIncluded, detailStarted,
                 order>>

\* updatedPayload of onUpdateSchema
updatedPayload(sch, patch) ==
  IF /\ "value_type" \in DOMAIN patch
     /\ patch.value_type = "categorical"
     /\ (sch.options.isNull \/ Len(sch.options.list) = 0)
     /\ ("options" \notin DOMAIN patch \/ patch.options.isNull)
  THEN [f \in DOMAIN patch \cup {"options"} |->
          IF f = "options" THEN DefaultOptions ELSE patch[f]]
  ELSE patch

\* onUpdateSchema up to its request, sch being the row as the page shows it
OnUpdateSchema(sch, patch) ==
  LET payload == updatedPayload(sch, patch)
  IN  /\ detailStarted < MaxCalls
      /\ detailStarted' = detailStarted + 1
      /\ detailCalls' = Sent(detailCalls, RequestCall("update", sch.id, payload, <<>>))
      /\ keyPatched' = (keyPatched \/ "key" \in DOMAIN payload)
      /\ bareCategoricalSent' =
           (bareCategoricalSent \/ bareCategorical(described(sch, payload)))
      /\ UNCHANGED <<serverSchemas, detailSchemas, createdKeys, serverIncluded,
                     detailIncluded, order>>

\* updateResultSchema answers
UpdateAnswered(c, ok) ==
  /\ c \in Waiting(detailCalls, "update", "request")
  /\ IF ok /\ Stored(c.id)
     THEN /\ serverSchemas' = serverPatch(c.id, c.payload)
          /\ detailCalls' = ThenRefresh(detailCalls, c)
     ELSE /\ detailCalls' = Answered(detailCalls, c)
          /\ UNCHANGED serverSchemas
  /\ UNCHANGED <<detailSchemas, keyPatched, createdKeys, bareCategoricalSent,
                 serverIncluded, detailIncluded, detailStarted,
                 order>>

\* prev.includes(k) ? prev.filter((x) => x !== k) : [...prev, k]
toggleIncluded(prev, k) ==
  IF k \in Range(prev) THEN SelectSeq(prev, LAMBDA x : x # k) ELSE Append(prev, k)

\* the checkbox of row i
ToggleIncluded(i) ==
  /\ i \in 1..Len(detailSchemas)
  /\ detailIncluded' = toggleIncluded(detailIncluded, detailSchemas[i].key)
  /\ UNCHANGED <<serverSchemas, detailSchemas, keyPatched, createdKeys,
                 bareCategoricalSent, serverIncluded, detailCalls, detailStarted,
                 order>>

\* saveIncluded up to its request
SaveIncluded ==
  /\ detailStarted < MaxCalls
  /\ detailStarted' = detailStarted + 1
  /\ detailCalls' = Sent(detailCalls, RequestCall("saveIncluded", 0, NoPayload, detailIncluded))
  /\ UNCHANGED <<serverSchemas, detailSchemas, keyPatched, createdKeys,
                 bareCategoricalSent, serverIncluded, detailIncluded, order>>

\* upsertOutputConfig answers
SaveIncludedAnswered(c, ok) ==
  /\ c \in Waiting(detailCalls, "saveIncluded", "request")
  /\ IF ok
     THEN /\ serverIncluded' = c.keys
          /\ detailCalls' = ThenRefresh(detailCalls, c)
     ELSE /\ detailCalls' = Answered(detailCalls, c)
          /\ UNCHANGED serverIncluded
  /\ UNCHANGED <<serverSchemas, detailSchemas, keyPatched, createdKeys,
                 bareCategoricalSent, detailIncluded, detailStarted,
                 order>>

\* refresh: getProject answers (a rejected request ends refresh)
ProjectFetched(c, ok) ==
  /\ c \in Waiting(detailCalls, "refresh", "project")
  /\ detailCalls' = IF ok THEN Sent(Answered(detailCalls, c), RefreshCall("schemas"))
                    ELSE Answered(detailCalls, c)
  /\ UNCHANGED <<serverSchemas, detailSchemas, keyPatched, createdKeys,
                 bareCategoricalSent, serverIncluded, detailIncluded, detailStarted,
                 order>>

\* refresh: listResultSchemas answers; the add form's order becomes the
\* greatest order fetched plus one, 0 when no schema was fetched
SchemasFetched(c, ok) ==
  /\ c \in Waiting(detailCalls, "refresh", "schemas")
  /\ IF ok
     THEN LET s == listResultSchemas
              orders == {s[i].order : i \in 1..Len(s)}
              maxOrder == CHOOSE m \in orders : \A o \in orders : o <= m
          IN  /\ detailSchemas' = s
              /\ order' = IF Len(s) > 0 THEN maxOrder + 1 ELSE 0
              /\ detailCalls' = Sent(Answered(detailCalls, c), RefreshCall("config"))
     ELSE /\ detailCalls' = Answered(detailCalls, c)
          /\ UNCHANGED <<detailSchemas, order>>
  /\ UNCHANGED <<serverSchemas, keyPatched, createdKeys, bareCategoricalSent,
                 serverIncluded, detailIncluded, detailStarted>>

\* the order field of the add form: setOrder(Number(e.target.value))
SetOrder(v) ==
  /\ order' = v
  /\ UNCHANGED <<serverSchemas, detailSchemas, keyPatched, createdKeys,
                 bareCategoricalSent, serverIncluded, detailIncluded, detailCalls,
                 detailStarted>>

\* refresh: getOutputConfig answers: setIncluded(oc?.included_keys ?? [])
ConfigFetched(c, ok) ==
  /\ c \in Waiting(detailCalls, "refresh", "config")
  /\ detailCalls' = Answered(detailCalls, c)
  /\ detailIncluded' = IF ok THEN serverIncluded ELSE detailIncluded
  /\ UNCHANGED <<serverSchemas, detailSchemas, keyPatched, createdKeys,
                 bareCategoricalSent, serverIncluded, detailStarted,
                 order>>

(***************************************************************************)
(* The editors of a schema row and the patch each one passes.              *)
(***************************************************************************)
orderPatch(v) == [order |-> v]

\* mutant: the label editor writing the key
labelPatchAsKey(v) == [key |-> v]

labelPatch(v) == [label |-> v]
valueTypePatch(t) == [value_type |-> t]
unitPatch(text) == [unit |-> textOrNull(text)]
optionsPatch(text) == [options |-> optionsFromText(text)]
descriptionPatch(text) == [description |-> textOrNull(text)]

EditOrder(i, v) ==
  i \in 1..Len(detailSchemas) /\ OnUpdateSchema(detailSchemas[i], orderPatch(v))

EditLabel(i, v) ==
  i \in 1..Len(detailSchemas) /\ OnUpdateSchema(detailSchemas[i], labelPatch(v))

EditValueType(i, t) ==
  i \in 1..Len(detailSchemas) /\ OnUpdateSchema(detailSchemas[i], valueTypePatch(t))

EditUnit(i, text) ==
  i \in 1..Len(detailSchemas) /\ OnUpdateSchema(detailSchemas[i], unitPatch(text))

\* the options editor is shown for a categorical schema only
EditOptions(i, text) ==
  /\ i \in 1..Len(detailSchemas)
  /\ detailSchemas[i].value_type = "categorical"
  /\ OnUpdateSchema(detailSchemas[i], optionsPatch(text))

EditDescription(i, text) ==
  i \in 1..Len(detailSchemas) /\ OnUpdateSchema(detailSchemas[i], descriptionPatch(text))

DeleteRow(i, confirmed) ==
  i \in 1..Len(detailSchemas) /\ OnDeleteSchema(detailSchemas[i].id, confirmed)


(***************************************************************************)
(* The Output page against the server: refresh and the deletion of an      *)
(* experiment.  The server side is the schemas (serverSchemas), the        *)
(* experiments (savedExperiments) and the output config (serverIncluded).  *)
(***************************************************************************)
\* inclKeys.filter(k => s.find(x => x.key === k && x.value_type === "quantitative"))
qKeysOf(s, inclKeys) ==
  LET IsQ(k) == \E i \in 1..Len(s) : s[i].key = k /\ s[i].value_type = "quantitative"
  IN  SelectSeq(inclKeys, IsQ)

\* if (!barKey) setBarKey(qKeys[0]), unset being !barKey as refresh sees it
unsetKey(unset, cur, k) == IF unset THEN k ELSE cur

(***************************************************************************)
(*   outCalls   : the calls of refresh and onDeleteExperiment that wait    *)
(*                for an answer, a bag of records [op, stage, id, seen, s] *)
(*   outStarted : how many calls the page has started                      *)
(* refresh waits for listResultSchemas ("schemas"), listExperiments        *)
(* ("experiments") and getOutputConfig ("config"); onDeleteExperiment      *)
(* waits for deleteExperiment ("request") and then runs refresh.  `seen`   *)
(* is what the function reads of the state: the values of the render that  *)
(* created it.  `s` is the list of schemas the call has fetched.           *)
(***************************************************************************)
VARIABLES outCalls, outStarted

callVars == <<outCalls, outStarted>>

\* selectedExpIds.length === 0, !barKey, ... of the current render
seenNow ==
  [selEmpty |-> Len(selectedExpIds) = 0, bar |-> barKey = "", line |-> lineKey = "",
   box |-> boxKey = "", x |-> scatterXKey = "", y |-> scatterYKey = ""]

PageCall(op, stage, id, seen, s) ==
  [op |-> op, stage |-> stage, id |-> id, seen |-> seen, s |-> s]

AtStage(stage) == {c \in BagToSet(outCalls) : c.stage = stage}

Moved(c, stage, s) == Sent(Answered(outCalls, c), [c EXCEPT !.stage = stage, !.s = s])

\* deleteExperiment(id) on the server
serverDeleteExperiment(id) ==
  LET Keep(x) == x.id # id IN SelectSeq(savedExperiments, Keep)

\* onDeleteExperiment up to its request; confirmed: window.confirm answers yes
OnDeleteExperiment(id, confirmed) ==
  /\ id \in Range(MapId(experiments))
  /\ IF ~confirmed
     THEN UNCHANGED <<outVars, callVars, savedExperiments>>
     ELSE /\ outStarted < MaxCalls
          /\ outStarted' = outStarted + 1
          /\ outCalls' = Sent(outCalls, PageCall("delete", "request", id, seenNow, <<>>))
          /\ UNCHANGED <<outVars, savedExperiments>>

\* deleteExperiment answers; on success refresh() is called
DeleteExperimentAnswered(c, ok) ==
  /\ c \in AtStage("request")
  /\ IF ok /\ c.id \in Range(MapId(savedExperiments))
     THEN /\ savedExperiments' = serverDeleteExperiment(c.id)
          /\ outCalls' = Moved(c, "schemas", <<>>)
     ELSE /\ outCalls' = Answered(outCalls, c)
          /\ UNCHANGED savedExperiments
  /\ UNCHANGED <<outVars, outStarted>>

\* refresh: listResultSchemas answers (a rejected request ends refresh).
\* New schemas: quantitativeSchemas is recomputed and the default-selection
\* effect is due.
PageSchemasAnswered(c, ok) ==
  /\ c \in AtStage("schemas")
  /\ IF ok
     THEN /\ schemas' = serverSchemas
          /\ selPc' = "changed"
          /\ outCalls' = Moved(c, "experiments", serverSchemas)
     ELSE /\ outCalls' = Answered(outCalls, c)
          /\ UNCHANGED <<schemas, selPc>>
  /\ UNCHANGED <<experiments, included, selectedExpIds, keyVars, prevSel, outStarted,
                 savedExperiments>>

\* refresh: listExperiments answers
PageExperimentsAnswered(c, ok) ==
  /\ c \in AtStage("experiments")
  /\ IF ok
     THEN LET e == savedExperiments
          IN  /\ experiments' = e
              /\ selectedExpIds' = IF c.seen.selEmpty /\ Len(e) > 0
                                   THEN MapId(e) ELSE selectedExpIds
              /\ outCalls' = Moved(c, "config", c.s)
     ELSE /\ outCalls' = Answered(outCalls, c)
          /\ UNCHANGED <<experiments, selectedExpIds>>
  /\ UNCHANGED <<schemas, included, keyVars, selPc, prevSel, outStarted, savedExperiments>>

\* refresh: getOutputConfig answers.  New included keys: the
\* default-selection effect is due.
PageConfigAnswered(c, ok) ==
  /\ c \in AtStage("config")
  /\ outCalls' = Answered(outCalls, c)
  /\ IF ok
     THEN LET inclKeys == serverIncluded
              qKeys == qKeysOf(c.s, inclKeys)
          IN  /\ included' = inclKeys
              /\ selPc' = "changed"
              /\ IF Len(qKeys) > 0
                 THEN /\ barKey' = unsetKey(c.seen.bar, barKey, qKeys[1])
                      /\ lineKey' = unsetKey(c.seen.line, lineKey, qKeys[1])
                      /\ boxKey' = unsetKey(c.seen.box, boxKey, qKeys[1])
                      /\ scatterXKey' = unsetKey(c.seen.x, scatterXKey, qKeys[1])
                      /\ scatterYKey' = IF Len(qKeys) > 1
                                        THEN unsetKey(c.seen.y, scatterYKey, qKeys[2])
                                        ELSE scatterYKey
                 ELSE UNCHANGED keyVars
     ELSE UNCHANGED <<included, selPc, keyVars>>
  /\ UNCHANGED <<schemas, experiments, selectedExpIds, prevSel, outStarted, savedExperiments>>

(***************************************************************************)
(* Specifications.  Each one moves the variables of one part of the        *)
(* application and holds the others at rest.                               *)
(***************************************************************************)
NoSelection == [bar |-> "", line |-> "", box |-> "", x |-> "", y |-> ""]

NoPageCalls == outCalls = EmptyBag /\ outStarted = 0

OutIdle ==
  /\ schemas = <<>> /\ experiments = <<>> /\ included = <<>>
  /\ selectedExpIds = <<>>
  /\ barKey = "" /\ lineKey = "" /\ boxKey = ""
  /\ scatterXKey = "" /\ scatterYKey = ""
  /\ selPc = "idle"
  /\ prevSel = NoSelection
  /\ NoPageCalls

FormIdle ==
  /\ formPage = "closed"
  /\ NoForm
  /\ formCalls = EmptyBag
  /\ formStarted = 0
  /\ savedExperiments = <<>>

vars == <<normVars, outVars, callVars, formVars, statsVars, detailVars>>

----------------------------------------------------------------------------
(* The normaliser on one raw value. *)
InitNorm ==
  /\ OutIdle /\ FormIdle /\ StatsIdle /\ DetailIdle
  /\ normIn \in RawValues
  /\ normOut = <<>>
  /\ normSum = NaN
  /\ normPc = "input"

NextNorm == Normalize /\ UNCHANGED <<outVars, callVars, formVars, statsVars, detailVars>>

SpecNorm == InitNorm /\ [][NextNorm]_vars

----------------------------------------------------------------------------
(* The box-plot statistics of one list of samples. *)
SampleValues == {1, 2, 3, 4, 5}

\* what the normaliser may pass besides finite numbers
UnboundedSamples == {One, PosInf, NegInf}

SampleLists ==
  { [i \in 1..Len(q) |-> Int2Num(q[i])] : q \in SeqsUpTo(SampleValues, MaxSamples) \ {<<>>} }
    \cup (SeqsUpTo(UnboundedSamples, MaxSamples) \ {<<>>})

InitStats ==
  /\ NormIdle /\ OutIdle /\ FormIdle /\ DetailIdle
  /\ statsIn \in SampleLists
  /\ statsOut = NoStats
  /\ statsPc = "input"

NextStats == ComputeBoxStats /\ UNCHANGED <<normVars, outVars, callVars, formVars, detailVars>>

SpecStats == InitStats /\ [][NextStats]_vars

----------------------------------------------------------------------------
(* The charts of the Output page over a fetched experiment list. *)
ResultKeys == {"a", "b"}

ExpNames == <<"A", "B", "C", "D">>

\* the experiments the server lists, newest (highest id) first
ExperimentLists ==
  { [i \in 1..Len(rows) |->
       [id |-> Len(rows) + 1 - i, name |-> ExpNames[Len(rows) + 1 - i],
        result_values |-> JObj(rows[i])]] : rows \in SeqsUpTo(ResultRows, MaxExps) }

ChartSchemas ==
  << [key |-> "a", value_type |-> "quantitative", order |-> 0],
     [key |-> "b", value_type |-> "quantitative", order |-> 1] >>

\* the page once the data is fetched and the default selection is made
InitCharts ==
  /\ NormIdle /\ FormIdle /\ StatsIdle /\ DetailIdle
  /\ schemas = ChartSchemas
  /\ included = <<"a", "b">>
  /\ experiments \in ExperimentLists
  /\ selectedExpIds = MapId(experiments)
  /\ barKey = "a" /\ lineKey = "a" /\ boxKey = "a"
  /\ scatterXKey = "a" /\ scatterYKey = "b"
  /\ selPc = "settled"
  /\ prevSel = NoSelection
  /\ NoPageCalls

NextCharts ==
  /\ \/ \E ex \in Range(experiments) : ToggleExpSelection(ex.id)
     \/ SelectAllExps
     \/ DeselectAllExps
     \/ \E k \in KeyOptions : SetBarKey(k)
     \/ \E k \in KeyOptions : SetLineKey(k)
     \/ \E k \in KeyOptions : SetScatterXKey(k)
     \/ \E k \in KeyOptions : SetScatterYKey(k)
  /\ UNCHANGED <<normVars, callVars, formVars, statsVars, detailVars>>

Spec == InitCharts /\ [][NextCharts]_vars

----------------------------------------------------------------------------
(* The box plot of the Output page over a fetched experiment list. *)
BoxExperimentLists ==
  { [i \in 1..Len(rows) |->
       [id |-> Len(rows) + 1 - i, name |-> ExpNames[Len(rows) + 1 - i],
        result_values |-> JObj(rows[i])]] : rows \in SeqsUpTo(BoxRows, MaxExps) }

InitBox ==
  /\ NormIdle /\ FormIdle /\ StatsIdle /\ DetailIdle
  /\ schemas = ChartSchemas
  /\ included = <<"a", "b">>
  /\ experiments \in BoxExperimentLists
  /\ selectedExpIds = MapId(experiments)
  /\ barKey = "a" /\ lineKey = "a" /\ boxKey = "a"
  /\ scatterXKey = "a" /\ scatterYKey = "b"
  /\ selPc = "settled"
  /\ prevSel = NoSelection
  /\ NoPageCalls

NextBox ==
  /\ \/ \E ex \in Range(experiments) : ToggleExpSelection(ex.id)
     \/ SelectAllExps
     \/ DeselectAllExps
     \/ \E k \in KeyOptions : SetBoxKey(k)
  /\ UNCHANGED <<normVars, callVars, formVars, statsVars, detailVars>>

SpecBox == InitBox /\ [][NextBox]_vars

----------------------------------------------------------------------------
(* The charts over experiments whose result values have any JSON shape. *)
ShapeExperimentLists ==
  { [i \in 1..Len(rows) |->
       [id |-> Len(rows) + 1 - i, name |-> ExpNames[Len(rows) + 1 - i],
        result_values |-> rows[i]]] : rows \in SeqsUpTo(ShapeRows, MaxExps) }

InitShapes ==
  /\ NormIdle /\ FormIdle /\ StatsIdle /\ DetailIdle
  /\ schemas = ChartSchemas
  /\ included = <<"a", "b">>
  /\ experiments \in ShapeExperimentLists
  /\ selectedExpIds = MapId(experiments)
  /\ barKey = "a" /\ lineKey = "a" /\ boxKey = "a"
  /\ scatterXKey = "a" /\ scatterYKey = "b"
  /\ selPc = "settled"
  /\ prevSel = NoSelection
  /\ NoPageCalls

NextShapes ==
  /\ \/ \E ex \in Range(experiments) : ToggleExpSelection(ex.id)
     \/ SelectAllExps
     \/ DeselectAllExps
     \/ \E k \in KeyOptions : SetBoxKey(k)
     \/ \E k \in KeyOptions : SetScatterXKey(k)
     \/ \E k \in KeyOptions : SetScatterYKey(k)
  /\ UNCHANGED <<normVars, callVars, formVars, statsVars, detailVars>>

SpecShapes == InitShapes /\ [][NextShapes]_vars

----------------------------------------------------------------------------
(* The default-selection effect over the schema lists and selections it    *)
(* may find.                                                               *)
KeyPool == <<"a", "b", "c", "d", "e">>
Orders == {0, 1}
ValueTypes == {"quantitative", "qualitative"}
SelKeys == <<"", "a", "b", "c", "z">>

SchemaLists(n) ==
  { [i \in 1..n |-> [key |-> KeyPool[i], value_type |-> t[i], order |-> o[i]]] :
      t \in [1..n -> ValueTypes], o \in [1..n -> Orders] }

AllQuantitative(q) == \A i \in 1..Len(q) : q[i].value_type = "quantitative"

\* included_keys: every key, or some of the keys of an all-quantitative list
IncludedLists(q) ==
  IF AllQuantitative(q)
  THEN { SelectSeq(MapKey(q), LAMBDA k : k \in S) : S \in SUBSET Range(MapKey(q)) }
  ELSE { MapKey(q) }

InitSelect ==
  /\ NormIdle /\ FormIdle /\ StatsIdle /\ DetailIdle
  /\ \E n \in 0..MaxSchemas : schemas \in SchemaLists(n)
  /\ included \in IncludedLists(schemas)
  /\ experiments = <<>>
  /\ selectedExpIds = <<>>
  /\ \E i \in 1..Len(SelKeys) :
       /\ barKey = SelKeys[i]
       /\ lineKey = SelKeys[(i % Len(SelKeys)) + 1]
       /\ boxKey = SelKeys[((i + 1) % Len(SelKeys)) + 1]
  /\ scatterXKey \in Range(SelKeys)
  /\ scatterYKey \in Range(SelKeys)
  /\ selPc = "changed"
  /\ prevSel = NoSelection
  /\ NoPageCalls

NextSelect == DefaultSelectionEffect /\ UNCHANGED <<normVars, callVars, formVars, statsVars, detailVars>>

SpecSelect == InitSelect /\ [][NextSelect]_vars

----------------------------------------------------------------------------
(* The Output page with its server: refresh, the experiment selection and  *)
(* the deletion of experiments.                                            *)
PageSchemaLists(n) ==
  { [i \in 1..n |-> [key |-> KeyPool[i], value_type |-> t[i], order |-> n - i]] :
      t \in [1..n -> ValueTypes] }

PageExperiments(n) == [i \in 1..n |-> [id |-> i, name |-> ExpNames[i]]]

InitPageServer ==
  /\ \E n \in 0..MaxSchemas : serverSchemas \in PageSchemaLists(n)
  /\ serverIncluded \in IncludedLists(serverSchemas)
  /\ \E n \in 0..MaxExps : savedExperiments = PageExperiments(n)

\* the page as constructed: every state at its useState initial value, the
\* effects of the first render due
InitPage ==
  /\ NormIdle /\ StatsIdle
  /\ formPage = "closed"
  /\ NoForm
  /\ formCalls = EmptyBag
  /\ formStarted = 0
  /\ DetailClosed
  /\ InitPageServer
  /\ schemas = <<>> /\ experiments = <<>> /\ included = <<>>
  /\ selectedExpIds = <<>>
  /\ barKey = "" /\ lineKey = "" /\ boxKey = ""
  /\ scatterXKey = "" /\ scatterYKey = ""
  /\ selPc = "changed"
  /\ prevSel = NoSelection
  /\ NoPageCalls

\* the page showing what the server stores, as a completed refresh of the
\* page just constructed leaves it: every experiment selected, the chart
\* keys unset before it set to the first quantitative keys, the
\* default-selection effect due.  refresh is called by onDeleteExperiment
\* only.
InitListed ==
  /\ NormIdle /\ StatsIdle
  /\ formPage = "closed"
  /\ NoForm
  /\ formCalls = EmptyBag
  /\ formStarted = 0
  /\ DetailClosed
  /\ InitPageServer
  /\ schemas = serverSchemas /\ experiments = savedExperiments
  /\ included = serverIncluded
  /\ selectedExpIds = MapId(experiments)
  /\ LET qKeys == qKeysOf(schemas, included)
         first == IF Len(qKeys) > 0 THEN qKeys[1] ELSE ""
     IN  /\ barKey = first /\ lineKey = first /\ boxKey = first
         /\ scatterXKey = first
         /\ scatterYKey = IF Len(qKeys) > 1 THEN qKeys[2] ELSE ""
  /\ selPc = "changed"
  /\ prevSel = NoSelection
  /\ NoPageCalls

PageRest ==
  UNCHANGED <<normVars, statsVars, detailVars, formPage, experimentId, name,
              author, purpose, error, materials, formSchemas, results, experimentList,
              formCalls, formStarted>>

\* what the user and the server do; the effects of a render run before
\* anything else is handled
PageEvents ==
  \/ \E id \in Range(MapId(experiments)) :
       ToggleExpSelection(id) /\ UNCHANGED <<callVars, savedExperiments>>
  \/ SelectAllExps /\ UNCHANGED <<callVars, savedExperiments>>
  \/ DeselectAllExps /\ UNCHANGED <<callVars, savedExperiments>>
  \/ \E k \in KeyOptions : SetBarKey(k) /\ UNCHANGED <<callVars, savedExperiments>>
  \/ \E id \in Range(MapId(experiments)), c \in BOOLEAN : OnDeleteExperiment(id, c)
  \/ \E c \in BagToSet(outCalls), ok \in BOOLEAN : DeleteExperimentAnswered(c, ok)
  \/ \E c \in BagToSet(outCalls), ok \in BOOLEAN : PageSchemasAnswered(c, ok)
  \/ \E c \in BagToSet(outCalls), ok \in BOOLEAN : PageExperimentsAnswered(c, ok)
  \/ \E c \in BagToSet(outCalls), ok \in BOOLEAN : PageConfigAnswered(c, ok)

NextPage ==
  /\ \/ DefaultSelectionEffect /\ UNCHANGED <<callVars, savedExperiments>>
     \/ selPc # "changed" /\ PageEvents
  /\ PageRest

SpecPage == InitListed /\ [][NextPage]_vars

(* The Output page after it mounts, left alone: the effects the component   *)
(* registers run, each as soon as it is due.                               *)
NextMount ==
  /\ DefaultSelectionEffect
  /\ UNCHANGED <<callVars, savedExperiments>>
  /\ PageRest

SpecMount == InitPage /\ [][NextMount]_vars /\ WF_vars(NextMount)

----------------------------------------------------------------------------
(* The schemas of a project, managed from the project detail page. *)
KeyTexts == {"", "a"}
LabelTexts == {" ", "L"}
LabelEdits == {"M"}
DetailTypes == {"quantitative", "categorical"}
OptionTexts == {"", ",", "x"}

\* the unit and description the add form holds
AddUnit == ""
AddDescription == ""
\* the orders typed into the add form
AddOrders == {0}

\* what the server holds when the page opens: no schema, or one made earlier
StoredSchema(t) ==
  [id |-> 1, project_id |-> projectId, key |-> "a", label |-> "L",
   value_type |-> t, unit |-> NullText,
   description |-> NullText,
   options |-> IF t = "categorical" THEN OptionList(<<"x">>) ELSE NullOptions,
   order |-> 0]

InitSchema ==
  /\ NormIdle /\ OutIdle /\ FormIdle /\ StatsIdle
  /\ \/ serverSchemas = <<>> /\ createdKeys = <<>> /\ serverIncluded = <<>>
     \/ /\ \E t \in DetailTypes : serverSchemas = <<StoredSchema(t)>>
        /\ createdKeys = <<"a">>
        /\ serverIncluded = <<>>
  /\ keyPatched = FALSE
  /\ bareCategoricalSent = FALSE
  /\ DetailMounted

Rows == 1..Len(detailSchemas)

NextSchema ==
  /\ \/ \E k \in KeyTexts, l \in LabelTexts, t \in DetailTypes, o \in OptionTexts :
          OnAddSchema(k, l, t, AddUnit, AddDescription, o)
     \/ \E v \in AddOrders : SetOrder(v)
     \/ \E i \in Rows, c \in BOOLEAN : DeleteRow(i, c)
     \/ \E i \in Rows : EditOrder(i, IF detailSchemas[i].order = 0 THEN 1 ELSE 0)
     \/ \E i \in Rows, v \in LabelEdits : EditLabel(i, v)
     \/ \E i \in Rows, t \in DetailTypes : EditValueType(i, t)
     \/ \E i \in Rows : EditUnit(i, IF detailSchemas[i].unit = NullText THEN "u" ELSE "")
     \/ \E i \in Rows, o \in OptionTexts : EditOptions(i, o)
     \/ \E i \in Rows :
          EditDescription(i, IF detailSchemas[i].description = NullText THEN "d" ELSE "")
     \/ \E i \in Rows : ToggleIncluded(i)
     \/ SaveIncluded
     \/ \E c \in BagToSet(detailCalls), ok \in BOOLEAN : CreateAnswered(c, ok)
     \/ \E c \in BagToSet(detailCalls), ok \in BOOLEAN : DeleteAnswered(c, ok)
     \/ \E c \in BagToSet(detailCalls), ok \in BOOLEAN : UpdateAnswered(c, ok)
     \/ \E c \in BagToSet(detailCalls), ok \in BOOLEAN : SaveIncludedAnswered(c, ok)
     \/ \E c \in BagToSet(detailCalls), ok \in BOOLEAN : ProjectFetched(c, ok)
     \/ \E c \in BagToSet(detailCalls), ok \in BOOLEAN : SchemasFetched(c, ok)
     \/ \E c \in BagToSet(detailCalls), ok \in BOOLEAN : ConfigFetched(c, ok)
  /\ UNCHANGED <<normVars, outVars, callVars, formVars, statsVars>>

SpecSchema == InitSchema /\ [][NextSchema]_vars

----------------------------------------------------------------------------
(* The experiment form, for a project with a quantitative schema a and a   *)
(* qualitative schema b, whose server stores up to MaxSaved experiments:   *)
(* the form has just mounted, by the route experiments/new.                *)
ProjectSchemas ==
  <<[key |-> "a", value_type |-> "quantitative", order |-> 0],
    [key |-> "b", value_type |-> "qualitative", order |-> 1]>>

StoredExperiments(n) ==
  [i \in 1..n |->
     [id |-> i, project_id |-> projectId, name |-> "x", author |-> "x",
      purpose |-> "x",
      materials |-> <<[name |-> "m", amount |-> 1, ratio |-> Hundred]>>,
      result_values |-> NoResults]]

InitFormServer ==
  /\ serverSchemas = ProjectSchemas
  /\ serverIncluded = <<>>
  /\ DetailClosed
  /\ \E n \in 0..MaxSaved : savedExperiments = StoredExperiments(n)

InitForm ==
  /\ NormIdle /\ OutIdle /\ StatsIdle
  /\ InitFormServer
  /\ formStarted = 0
  /\ FormMounted(0)

\* a text that passes the check of the required fields
FilledTexts == {"x"}

FormRest == UNCHANGED <<normVars, outVars, callVars, statsVars, detailVars>>

\* the answers of the server to the calls of the form
FormAnswers ==
  \/ \E c \in BagToSet(formCalls), ok \in BOOLEAN : LoadSchemasAnswered(c, ok, serverSchemas)
  \/ \E c \in BagToSet(formCalls), ok \in BOOLEAN : LoadExperimentsAnswered(c, ok)
  \/ \E c \in BagToSet(formCalls), ok \in BOOLEAN, detail \in Details :
       SaveAnswered(c, ok, detail)

NextForm ==
  /\ \/ \E idx \in 1..MaxMaterials, patch \in Patches : UpdateMaterial(idx, patch)
     \/ AddMaterial
     \/ \E idx \in 1..MaxMaterials : RemoveMaterial(idx)
     \/ \E i \in 1..Len(experimentList), c \in BOOLEAN : LoadRecipeFromExperiment(i, c)
     \/ \E v \in FilledTexts : SetName(v)
     \/ \E v \in FilledTexts : SetAuthor(v)
     \/ \E v \in FilledTexts : SetPurpose(v)
     \/ OnSave
     \/ OpenNewForm
     \/ FormAnswers
  /\ FormRest

SpecForm == InitForm /\ [][NextForm]_vars

----------------------------------------------------------------------------
(* The result values of a save, over what the inputs of the form may hold: *)
(* a text typed into the input of the quantitative schema a (null once the *)
(* input is emptied), a text typed into the input of the qualitative       *)
(* schema b.                                                               *)
QuantitativeTexts ==
  {Text(<<"">>), Text(<<"2">>), Text(<<"abc">>), Text(<<"Infinity">>),
   Text(<<" 5">>), Text(<<"2", " 5">>), Text(<<"abc", "">>), Text(<<"Infinity", "2">>)}

QualitativeTexts == {Text(<<"">>), Text(<<"abc">>)}

NextResults ==
  /\ \/ \E i \in 1..Len(formSchemas), text \in QuantitativeTexts : SetQuantitative(i, text)
     \/ \E i \in 1..Len(formSchemas), text \in QualitativeTexts : SetText(i, text)
     \/ \E v \in FilledTexts : SetName(v)
     \/ \E v \in FilledTexts : SetAuthor(v)
     \/ \E v \in FilledTexts : SetPurpose(v)
     \/ OnSave
     \/ OpenNewForm
     \/ FormAnswers
  /\ FormRest

SpecResults == InitForm /\ [][NextResults]_vars

----------------------------------------------------------------------------
(* The required fields of the experiment form: the three text inputs take  *)
(* an empty, a whitespace-only or a non-blank text; the recipe is left as  *)
(* the form mounted or loaded it.                                          *)
RequiredTexts == {"", " ", "x"}

NextRequired ==
  /\ \/ \E v \in RequiredTexts : SetName(v)
     \/ \E v \in RequiredTexts : SetAuthor(v)
     \/ \E v \in RequiredTexts : SetPurpose(v)
     \/ OnSave
     \/ OpenNewForm
     \/ FormAnswers
  /\ FormRest

SpecRequired == InitForm /\ [][NextRequired]_vars


----------------------------------------------------------------------------
(***************************************************************************)
(* What the specification of the application says a raw value holds: the   *)
(* numbers and the numeric strings are samples, nothing else is.           *)
(***************************************************************************)
NumericStrings == {"2", "5", "1.5"}

IsNumericValue(v) ==
  \/ v.t = "number" /\ isFinite(v.num)
  \/ v.t = "string" /\ v.str \in NumericStrings

NumericValueOf(v) == IF v.t = "number" THEN v.num ELSE StringToNumber(v.str)

RECURSIVE NumericElements(_)
NumericElements(a) ==
  IF a = <<>> THEN <<>>
  ELSE (IF IsNumericValue(Head(a)) THEN <<NumericValueOf(Head(a))>> ELSE <<>>)
       \o NumericElements(Tail(a))

\* the samples a raw value stands for
SamplesOf(v) ==
  IF v.t = "array" THEN NumericElements(v.arr)
  ELSE IF IsNumericValue(v) THEN <<NumericValueOf(v)>> ELSE <<>>

AllFinite(q) == \A i \in 1..Len(q) : isFinite(q[i])

(***************************************************************************)
(* C5: the samples the normaliser produces (extractValues, and the samples *)
(* toNumericSummary averages) are all finite numbers, never NaN and never  *)
(* an infinity.                                                            *)
(***************************************************************************)
C5_SamplesFinite ==
  normPc = "done" => AllFinite(normOut) /\ AllFinite(summaryNums(normIn))

(***************************************************************************)
(* C6: normalising an array keeps exactly its numeric elements, in order,  *)
(* and drops every other element, null included, without putting a zero in *)
(* its place.                                                              *)
(***************************************************************************)
C6_ArrayKeepsNumericOnly ==
  (normPc = "done" /\ normIn.t = "array") => normOut = NumericElements(normIn.arr)

(***************************************************************************)
(* C7: normalising a scalar gives the empty sequence for an absent value,  *)
(* null, the empty string and a non-numeric string, and the one number for *)
(* a number or a numeric string.                                           *)
(***************************************************************************)
C7_ScalarNormalised ==
  (normPc = "done" /\ normIn.t # "array") =>
     /\ normOut = (IF IsNumericValue(normIn) THEN <<NumericValueOf(normIn)>> ELSE <<>>)
     /\ isNaN(normSum) = ~IsNumericValue(normIn)

----------------------------------------------------------------------------
RECURSIVE MapName(_)
MapName(q) == IF q = <<>> THEN <<>> ELSE <<Head(q).name>> \o MapName(Tail(q))

\* s can be obtained from t by deleting elements
RECURSIVE IsSubseq(_, _)
IsSubseq(s, t) ==
  IF s = <<>> THEN TRUE
  ELSE IF t = <<>> THEN FALSE
  ELSE IF Head(s) = Head(t) THEN IsSubseq(Tail(s), Tail(t))
  ELSE IsSubseq(s, Tail(t))

PointsNamed(series, n) == {i \in 1..Len(series) : series[i].name = n}

(***************************************************************************)
(* C4: the scatter series is empty whenever the X key equals the Y key,    *)
(* for any non-empty list of visible experiments.                          *)
(***************************************************************************)
C4_ScatterSameKeyEmpty ==
  (scatterXKey = scatterYKey /\ visibleExperiments # <<>>) => scatterData = <<>>

(***************************************************************************)
(* C8: the bar and line series hold a point for a visible experiment       *)
(* exactly when that experiment has at least one numeric sample for the    *)
(* key; an experiment without samples is absent, never shown as 0.         *)
(***************************************************************************)
SeriesCoversSampled(series, key) ==
  \A i \in 1..Len(visibleExperiments) :
     LET ex == visibleExperiments[i]
     IN  (PointsNamed(series, ex.name) # {}) <=> (SamplesOf(valueAt(ex, key)) # <<>>)

C8_PointIffSample ==
  SeriesCoversSampled(barData, barKey) /\ SeriesCoversSampled(lineData, lineKey)

(***************************************************************************)
(* C9: the bar and line series list their points in the reverse of the     *)
(* visible-experiment order (a subsequence of the reversed list, so no     *)
(* longer than it), and the visible experiments keep the order of the      *)
(* fetched list whatever the order in which they were selected.            *)
(***************************************************************************)
C9_SeriesReversed ==
  /\ LET bars == barData
         points == lineData
     IN  /\ IsSubseq(MapName(bars), Reverse(MapName(visibleExperiments)))
         /\ IsSubseq(MapName(points), Reverse(MapName(visibleExperiments)))
         /\ Len(bars) <= Len(visibleExperiments)
         /\ Len(points) <= Len(visibleExperiments)
  /\ IsSubseq(MapId(visibleExperiments), MapId(experiments))
  /\ Range(MapId(visibleExperiments)) = Range(MapId(experiments)) \cap Range(selectedExpIds)

\* two points are charted, from experiments selected in an order other than
\* the fetched one
C9_Witness ==
  /\ Len(barData) >= 2
  /\ Len(selectedExpIds) >= 2
  /\ selectedExpIds # MapId(experiments)
  /\ MapName(barData) = Reverse(MapName(visibleExperiments))

(***************************************************************************)
(* C10: the value of each bar / line point is the arithmetic mean of the   *)
(* experiment's samples for the key, rounded to 2 decimal digits.          *)
(***************************************************************************)
MeanOf(q) == NumDivInt(SumNums(q), Len(q))

SeriesRounded(series, key) ==
  \A i \in 1..Len(visibleExperiments) :
     LET ex == visibleExperiments[i]
         samples == extractValues(valueAt(ex, key))
     IN  (samples # <<>> /\ AllFinite(samples)) =>
            \A p \in PointsNamed(series, ex.name) :
               series[p].value = ToFixed2(MeanOf(samples))

C10_MeanRounded ==
  SeriesRounded(barData, barKey) /\ SeriesRounded(lineData, lineKey)


----------------------------------------------------------------------------
(***************************************************************************)
(* The valid keys as the specification describes them: the keys of the     *)
(* schemas that are quantitative and included in the output, the first     *)
(* being the one of least `order` (the earlier schema on a tie).           *)
(***************************************************************************)
ValidPositions ==
  {i \in 1..Len(schemas) :
     schemas[i].value_type = "quantitative" /\ schemas[i].key \in Range(included)}

ValidKeySet == {schemas[i].key : i \in ValidPositions}

Before(i, j) ==
  \/ schemas[i].order < schemas[j].order
  \/ schemas[i].order = schemas[j].order /\ i < j

FirstOf(P) == CHOOSE i \in P : \A j \in P \ {i} : Before(i, j)

FirstValidKey == schemas[FirstOf(ValidPositions)].key

SecondValidKey == schemas[FirstOf(ValidPositions \ {FirstOf(ValidPositions)})].key

KeptOrFirst(before, after) ==
  after = (IF before \in ValidKeySet THEN before ELSE FirstValidKey)

(***************************************************************************)
(* C2: when the set of included quantitative schemas has changed, each of  *)
(* the bar, line, box and scatter-X selections that is not a valid key is  *)
(* replaced by the first valid key in `order` order, and each one that is  *)
(* valid is left as it was.  Stated of the steps that apply the rule: the  *)
(* default-selection effect leaves a valid key and sets any other to the   *)
(* first valid key; the last step of refresh, which fetches the included   *)
(* keys and is followed by the effect, leaves a valid key, and a key it    *)
(* changes becomes the first valid key.                                    *)
(***************************************************************************)
RefreshEnds == \E c \in BagToSet(outCalls) : PageConfigAnswered(c, TRUE)

LeftOrFirst(before, after) ==
  /\ before \in ValidKeySet' => after = before
  /\ after # before => after = FirstValidKey'

C2_DefaultKeepsValidResetsStale ==
  [][ /\ (DefaultSelectionEffect /\ ValidKeySet # {}) =>
           /\ KeptOrFirst(barKey, barKey')
           /\ KeptOrFirst(lineKey, lineKey')
           /\ KeptOrFirst(boxKey, boxKey')
           /\ KeptOrFirst(scatterXKey, scatterXKey')
      /\ (RefreshEnds /\ ValidKeySet' # {}) =>
           /\ LeftOrFirst(barKey, barKey')
           /\ LeftOrFirst(lineKey, lineKey')
           /\ LeftOrFirst(boxKey, boxKey')
           /\ LeftOrFirst(scatterXKey, scatterXKey') ]_vars

(***************************************************************************)
(* C3: when the scatter-Y selection is not a valid key, the effect sets it *)
(* to the second valid key if there are at least two valid keys, and       *)
(* otherwise to the key of scatter-X.                                      *)
(***************************************************************************)
C3_ScatterYDefault ==
  (selPc = "settled" /\ ValidKeySet # {} /\ prevSel.y \notin ValidKeySet) =>
     scatterYKey =
       (IF Cardinality(ValidKeySet) >= 2 THEN SecondValidKey ELSE scatterXKey)

\* a stale scatter-Y was set to the second of several valid keys, which is
\* not the key scatter-X holds
C3_Witness ==
  /\ selPc = "settled"
  /\ Cardinality(ValidKeySet) >= 2
  /\ prevSel.y = "z"
  /\ scatterYKey = SecondValidKey
  /\ scatterYKey # scatterXKey
  /\ SecondValidKey # schemas[2].key

----------------------------------------------------------------------------
RECURSIVE SumRatios(_)
SumRatios(q) ==
  IF q = <<>> THEN Int2Num(0)
  ELSE NumAdd(IF Head(q).amount > 0 THEN Head(q).ratio ELSE Int2Num(0),
              SumRatios(Tail(q)))

(***************************************************************************)
(* C1: in the experiment form, after any sequence of addMaterial,          *)
(* updateMaterial, removeMaterial and loadRecipeFromExperiment (and the    *)
(* initial load of an existing experiment), every ratio is 0 if the total  *)
(* amount is 0, and otherwise the ratios of the materials whose amount is  *)
(* positive sum to 100.                                                    *)
(***************************************************************************)
C1_RatiosSumTo100 ==
  formPage = "form" =>
     IF TotalAmount(materials) = 0
     THEN \A i \in 1..Len(materials) : materials[i].ratio = Int2Num(0)
     ELSE SumRatios(materials) = Hundred


----------------------------------------------------------------------------
(***************************************************************************)
(* The quartiles as the specification describes them, on the ascending     *)
(* arrangement of the samples: the middle position of n samples is         *)
(* (n + 1) / 2, the lower half holds the positions strictly below it and   *)
(* the upper half those strictly above it.                                 *)
(***************************************************************************)
LeastIndex(q) == CHOOSE i \in 1..Len(q) : \A j \in 1..Len(q) : NumLeq(q[i], q[j])

DropIndex(q, i) == SubSeq(q, 1, i - 1) \o SubSeq(q, i + 1, Len(q))

RECURSIVE Ascending(_)
Ascending(q) ==
  IF q = <<>> THEN <<>>
  ELSE <<q[LeastIndex(q)]>> \o Ascending(DropIndex(q, LeastIndex(q)))

MiddleOf(r) ==
  IF Len(r) % 2 = 1 THEN r[(Len(r) + 1) \div 2]
  ELSE NumDiv(NumAdd(r[Len(r) \div 2], r[(Len(r) \div 2) + 1]), Two)

BelowMiddle(r) == LET P(i) == 2 * i < Len(r) + 1 IN SubSeq(r, 1, Cardinality({i \in 1..Len(r) : P(i)}))

AboveMiddle(r) ==
  LET k == Cardinality({i \in 1..Len(r) : 2 * i > Len(r) + 1})
  IN  SubSeq(r, Len(r) - k + 1, Len(r))

(***************************************************************************)
(* C11: for every non-empty list of samples getBoxStats gives the median   *)
(* of the sorted samples (middle element, or mean of the two middle ones), *)
(* q1 the median of the samples strictly below the middle position and q3  *)
(* the median of those strictly above it, the middle element of an odd     *)
(* length belonging to neither half.                                       *)
(***************************************************************************)
C11_ExclusiveMedianOfHalves ==
  statsPc = "done" =>
     LET r == Ascending(statsIn)
     IN  /\ statsOut.median = MiddleOf(r)
         /\ Len(r) >= 2 => /\ statsOut.q1 = MiddleOf(BelowMiddle(r))
                           /\ statsOut.q3 = MiddleOf(AboveMiddle(r))

\* the unsorted samples [4,1,3,2]: median 2.5, q1 1.5, q3 3.5
C11_Witness ==
  /\ statsPc = "done"
  /\ statsIn = <<Int2Num(4), One, Int2Num(3), Two>>
  /\ statsOut.median = Fin(5, 2)
  /\ statsOut.q1 = Fin(3, 2)
  /\ statsOut.q3 = Fin(7, 2)

(***************************************************************************)
(* C12: for the samples [1,2,3,4,5] the statistics are                     *)
(* {min: 1, q1: 2, median: 3, q3: 4, max: 5}.                              *)
(***************************************************************************)
OneToFive == <<One, Two, Int2Num(3), Int2Num(4), Int2Num(5)>>

C12_OneToFiveStats ==
  (statsPc = "done" /\ statsIn = OneToFive) =>
     statsOut = [min |-> One, q1 |-> Two, median |-> Int2Num(3),
                 q3 |-> Int2Num(4), max |-> Int2Num(5)]

(***************************************************************************)
(* C12 as amended: for the samples [1,2,3,4,5] the statistics are          *)
(* {min: 1, q1: 1.5, median: 3, q3: 4.5, max: 5}, the middle element 3     *)
(* being in neither half.                                                  *)
(***************************************************************************)
C12_OneToFiveStatsExclusive ==
  (statsPc = "done" /\ statsIn = OneToFive) =>
     statsOut = [min |-> One, q1 |-> Fin(3, 2), median |-> Int2Num(3),
                 q3 |-> Fin(9, 2), max |-> Int2Num(5)]

C12_Witness == statsPc = "done" /\ statsIn = OneToFive


----------------------------------------------------------------------------
(***************************************************************************)
(* C13: the box-plot series holds an entry for a visible experiment        *)
(* exactly when that experiment has at least one numeric sample for the    *)
(* box key; it is empty when no visible experiment has one, and its        *)
(* entries are in the visible-experiment order.                            *)
(***************************************************************************)
C13_BoxEntryIffSample ==
  /\ \A i \in 1..Len(visibleExperiments) :
        LET ex == visibleExperiments[i]
        IN  (PointsNamed(boxPlotSeries, ex.name) # {})
               <=> (SamplesOf(valueAt(ex, boxKey)) # <<>>)
  /\ IsSubseq(MapName(boxPlotSeries), MapName(visibleExperiments))

(***************************************************************************)
(* The union of the samples of the visible experiments for the box key,    *)
(* its least and greatest element, and the range the scale is padded by:   *)
(* greatest - least, or 1 when the two are equal.                          *)
(***************************************************************************)
UnionOfSamples ==
  UNION { Range(extractValues(valueAt(visibleExperiments[i], boxKey))) :
            i \in 1..Len(visibleExperiments) }

Least == CHOOSE x \in UnionOfSamples : \A y \in UnionOfSamples : NumLeq(x, y)
Greatest == CHOOSE x \in UnionOfSamples : \A y \in UnionOfSamples : NumLeq(y, x)

Spread == IF Least = Greatest THEN One ELSE NumSub(Greatest, Least)

(***************************************************************************)
(* C14: the shared scale of a non-empty box-plot series is the least and   *)
(* greatest sample over all visible experiments, padded by 10% of their    *)
(* range on each side: yMin = least - 0.1 * range, yMax = greatest +       *)
(* 0.1 * range, and the min and max of every entry lie in [yMin, yMax].    *)
(***************************************************************************)
C14_SharedScalePadded ==
  LET series == boxPlotSeries
      lo == yMin
      hi == yMax
  IN  series # <<>> =>
        /\ lo = NumSub(Least, NumMul(OneTenth, Spread))
        /\ hi = NumAdd(Greatest, NumMul(OneTenth, Spread))
        /\ \A i \in 1..Len(series) :
              /\ NumLeq(lo, series[i].stats.min)
              /\ NumLeq(series[i].stats.max, hi)

\* two entries, samples [2,4] and [1,1,2]: the padding is 3 * 0.1 =
\* 0.30000000000000004 and the scale 0.7 .. 4.3 is shared
C14_Witness ==
  /\ Len(boxPlotSeries) = 2
  /\ yMin = Fin(7, 10)
  /\ yMax = Fin(43, 10)
  /\ \E i \in 1..2 : boxPlotSeries[i].stats.min = Two

(***************************************************************************)
(* C15: when all the samples are equal the padded scale has yRange         *)
(* exactly 1, yMin = min - 0.5 and yMax = max + 0.5.                       *)
(***************************************************************************)
C15_DegenerateScaleIsUnit ==
  (boxPlotSeries # <<>> /\ Least = Greatest) =>
     /\ yRange = One
     /\ yMin = NumSub(Least, OneHalf)
     /\ yMax = NumAdd(Greatest, OneHalf)

(***************************************************************************)
(* C16: whenever the box-plot series is not empty, yMax - yMin is          *)
(* strictly positive and no position of any entry is NaN, also when every  *)
(* sample is the same.                                                     *)
(***************************************************************************)
PositionsOf(e) == {e.pos.min, e.pos.q1, e.pos.median, e.pos.q3, e.pos.max}

C16_ScalePositiveNoNaN ==
  boxPlotSeries # <<>> =>
     /\ NumLess(Int2Num(0), yRange)
     /\ \A i \in 1..Len(boxPlotSeries) :
           \A p \in PositionsOf(boxPlotSeries[i]) : ~isNaN(p)

(***************************************************************************)
(* C17: the position mapping is inverted: of two values of the scale the   *)
(* greater has the smaller position, and so for every entry                *)
(* pos.max <= pos.q3 <= pos.median <= pos.q1 <= pos.min.                   *)
(***************************************************************************)
StatsOf(e) == {e.stats.min, e.stats.q1, e.stats.median, e.stats.q3, e.stats.max}

ScaleValues ==
  {yMin, yMax} \cup UNION { StatsOf(boxPlotSeries[i]) : i \in 1..Len(boxPlotSeries) }

C17_PositionInverted ==
  boxPlotSeries # <<>> =>
     /\ \A v1, v2 \in ScaleValues :
           NumLess(v1, v2) => NumLess(getPos(v2), getPos(v1))
     /\ \A i \in 1..Len(boxPlotSeries) :
           LET pos == boxPlotSeries[i].pos
           IN  /\ NumLeq(pos.max, pos.q3)
               /\ NumLeq(pos.q3, pos.median)
               /\ NumLeq(pos.median, pos.q1)
               /\ NumLeq(pos.q1, pos.min)


----------------------------------------------------------------------------
(***************************************************************************)
(* C18: with distinct X and Y keys the scatter series holds a point for a  *)
(* visible experiment exactly when both keys give it at least one numeric  *)
(* sample, and the point's x and y are the means of the samples of the X   *)
(* key and of the Y key.                                                   *)
(***************************************************************************)
C18_ScatterPointIffBothSampled ==
  scatterXKey # scatterYKey =>
     \A i \in 1..Len(visibleExperiments) :
        LET ex == visibleExperiments[i]
            xs == SamplesOf(valueAt(ex, scatterXKey))
            ys == SamplesOf(valueAt(ex, scatterYKey))
        IN  /\ (PointsNamed(scatterData, ex.name) # {}) <=> (xs # <<>> /\ ys # <<>>)
            /\ \A p \in PointsNamed(scatterData, ex.name) :
                  /\ scatterData[p].x = MeanOf(xs)
                  /\ scatterData[p].y = MeanOf(ys)


----------------------------------------------------------------------------
(***************************************************************************)
(* C19: for any experiment list and any shape of raw value (result_values  *)
(* absent, key absent, null, number, string, empty array, array with       *)
(* non-numeric elements, nested array, object) the bar / line series, the  *)
(* box-plot series and the scatter series are computed without an error,   *)
(* and a malformed value only leaves its experiment out: the entries are   *)
(* entries of visible experiments, in their order or its reverse, they     *)
(* carry no NaN, and an experiment whose value holds no sample has no      *)
(* entry.                                                                  *)
(***************************************************************************)
NoNaNStats(e) == \A x \in StatsOf(e) : ~isNaN(x)

NoSample(ex, key) == SamplesOf(valueAt(ex, key)) = <<>>

C19_ChartsTotal ==
  /\ ~getChartDataThrows(barKey) /\ ~getChartDataThrows(lineKey)
  /\ ~boxPlotSeriesThrows
  /\ ~scatterDataThrows
  /\ LET bars == barData
         boxes == boxPlotSeries
         points == scatterData
     IN  /\ IsSubseq(MapName(bars), Reverse(MapName(visibleExperiments)))
         /\ IsSubseq(MapName(boxes), MapName(visibleExperiments))
         /\ IsSubseq(MapName(points), MapName(visibleExperiments))
         /\ \A i \in 1..Len(bars) : ~isNaN(bars[i].value)
         /\ \A i \in 1..Len(boxes) : NoNaNStats(boxes[i])
         /\ \A i \in 1..Len(points) : ~isNaN(points[i].x) /\ ~isNaN(points[i].y)
         /\ \A i \in 1..Len(visibleExperiments) :
               LET ex == visibleExperiments[i]
               IN  /\ NoSample(ex, barKey) => PointsNamed(bars, ex.name) = {}
                   /\ NoSample(ex, boxKey) => PointsNamed(boxes, ex.name) = {}
                   /\ (NoSample(ex, scatterXKey) \/ NoSample(ex, scatterYKey))
                         => PointsNamed(points, ex.name) = {}


----------------------------------------------------------------------------
(***************************************************************************)
(* C20: no update request sent from the project detail page carries a      *)
(* `key` field, whichever editor (order, label, value type, unit, options, *)
(* description) sends it, and so every stored schema has the key it was    *)
(* created with, after any sequence of edits.                              *)
(***************************************************************************)
C20_KeyNeverChanges ==
  /\ ~keyPatched
  /\ \A i \in 1..Len(serverSchemas) :
        serverSchemas[i].key = createdKeys[serverSchemas[i].id]
  /\ \A i \in 1..Len(detailSchemas) :
        detailSchemas[i].key = createdKeys[detailSchemas[i].id]

\* the page shows, re-fetched after an edit of its label, a schema that is
\* stored with that label, and its key is the one it was created with
C20_Witness ==
  \E i \in 1..Len(detailSchemas), j \in 1..Len(serverSchemas) :
     /\ detailSchemas[i] = serverSchemas[j]
     /\ detailSchemas[i].label = "M"
     /\ detailSchemas[i].key = "a"

----------------
(***************************************************************************)
(* C21: no create or update request sent from the project detail page      *)
(* describes a categorical schema whose options are null or empty          *)
(* (onAddSchema with type categorical, onUpdateSchema switching a schema   *)
(* to categorical, the options editor of a categorical schema).            *)
(***************************************************************************)
C21_CategoricalHasOptions == ~bareCategoricalSent


(***************************************************************************)
(* C22: onSave with an empty or whitespace-only name, author or purpose    *)
(* sets the required-fields message, sends no create/update request and    *)
(* does not navigate; a step in which a create/update request is sent      *)
(* starts with all three fields non-blank, and the request carries a       *)
(* non-blank name, author and purpose.                                     *)
(***************************************************************************)
SomeRequiredBlank ==
  \E f \in {name, author, purpose} : f \in {"", " "}

Saves(calls) == {c \in BagToSet(calls) : c.op = "save"}

C22_BlankFieldsSendNothing ==
  [][ /\ (OnSave /\ SomeRequiredBlank)
           => /\ error' = RequiredError
              /\ UNCHANGED <<formPage, formCalls, savedExperiments>>
      /\ formStarted' # formStarted => ~SomeRequiredBlank
      /\ \A c \in Saves(formCalls') :
            \A f \in {c.payload.name, c.payload.author, c.payload.purpose} :
               f \notin {"", " "} ]_vars

\* onSave has refused a whitespace-only name, after an earlier click had
\* sent a request
C22_Witness ==
  /\ formPage = "form"
  /\ error = RequiredError
  /\ name = " " /\ author = "x" /\ purpose = "x"
  /\ formStarted > 0


(***************************************************************************)
(* C23: when the default-selection effect has run with at least two valid  *)
(* quantitative keys and has reset scatter-Y (it was empty or not a valid  *)
(* key), the scatter-Y key differs from the scatter-X key.                 *)
(***************************************************************************)
C23_ScatterYDiffersFromX ==
  (selPc = "settled" /\ Cardinality(ValidKeySet) >= 2 /\ prevSel.y \notin ValidKeySet)
     => scatterYKey # scatterXKey


(***************************************************************************)
(* C24: after the Output page has mounted, with no user action and the     *)
(* backend answering, the page eventually holds the schemas, experiments   *)
(* and included keys of the server.                                        *)
(***************************************************************************)
C24_MountEventuallyLoads ==
  <>(/\ schemas = serverSchemas
     /\ experiments = savedExperiments
     /\ included = serverIncluded)

(***************************************************************************)
(* C25: every id in selectedExpIds is the id of an experiment of the       *)
(* current experiments list, and the selected count is at most the         *)
(* experiment count.                                                       *)
(***************************************************************************)
C25_SelectionWithinExperiments ==
  /\ Range(selectedExpIds) \subseteq Range(MapId(experiments))
  /\ Len(selectedExpIds) <= Len(experiments)

(***************************************************************************)
(* C26: the steps of a deletion (the answer to deleteExperiment and the    *)
(* answers to the requests of the refresh that follows) leave every        *)
(* experiment that remains on the server selected if and only if it was    *)
(* selected before the step, also when no experiment was selected.         *)
(***************************************************************************)
DeletionStep ==
  \E c \in BagToSet(outCalls), ok \in BOOLEAN :
     /\ c.op = "delete"
     /\ \/ DeleteExperimentAnswered(c, ok)
        \/ PageSchemasAnswered(c, ok)
        \/ PageExperimentsAnswered(c, ok)
        \/ PageConfigAnswered(c, ok)

C26_DeletionKeepsSelection ==
  [][ DeletionStep =>
        \A i \in 1..Len(savedExperiments') :
           (savedExperiments'[i].id \in Range(selectedExpIds'))
             <=> (savedExperiments'[i].id \in Range(selectedExpIds)) ]_vars


(***************************************************************************)
(* C28: for every non-empty list of samples getBoxStats gives              *)
(* min <= q1 <= median <= q3 <= max, min and max being the smallest and    *)
(* the largest sample; for a single sample all five equal that sample.     *)
(***************************************************************************)
C28_FiveNumbersOrdered ==
  statsPc = "done" =>
     /\ NumLeq(statsOut.min, statsOut.q1)
     /\ NumLeq(statsOut.q1, statsOut.median)
     /\ NumLeq(statsOut.median, statsOut.q3)
     /\ NumLeq(statsOut.q3, statsOut.max)
     /\ \A i \in 1..Len(statsIn) :
          NumLeq(statsOut.min, statsIn[i]) /\ NumLeq(statsIn[i], statsOut.max)
     /\ statsOut.min \in Range(statsIn) /\ statsOut.max \in Range(statsIn)
     /\ Len(statsIn) = 1 =>
          \A f \in {"min", "q1", "median", "q3", "max"} : statsOut[f] = statsIn[1]


(***************************************************************************)
(* C27: once the default-selection effect has run for the current included *)
(* quantitative schemas, each of the five chart keys is the empty string   *)
(* or the key of one of these schemas, also when there is none.            *)
(***************************************************************************)
C27_KeysValidOrEmpty ==
  selPc = "settled" =>
     \A k \in {barKey, lineKey, boxKey, scatterXKey, scatterYKey} :
        k = "" \/ k \in ValidKeySet


(***************************************************************************)
(* C29: for the same key and the same visible experiments a visible        *)
(* experiment has a point in getChartData(key) if and only if it has an    *)
(* entry in the box-plot series for that key, and the value of the point   *)
(* lies between the min and the max of that entry.                         *)
(***************************************************************************)
C29_BarAndBoxCoverSame ==
  boxKey # "" =>
     LET bars == getChartData(boxKey)
     IN  /\ \A i \in 1..Len(visibleExperiments) :
               (PointsNamed(bars, visibleExperiments[i].name) # {})
                 <=> (PointsNamed(boxPlotSeries, visibleExperiments[i].name) # {})
         /\ \A i \in 1..Len(bars), j \in 1..Len(boxPlotSeries) :
               bars[i].name = boxPlotSeries[j].name =>
                  /\ NumLeq(boxPlotSeries[j].stats.min, bars[i].value)
                  /\ NumLeq(bars[i].value, boxPlotSeries[j].stats.max)


(***************************************************************************)
(* C30: what onSave places in result_values under the key of a             *)
(* quantitative schema is a number other than NaN or a non-empty array of  *)
(* numbers other than NaN; when the input is empty or holds no valid       *)
(* number the key is omitted.                                              *)
(***************************************************************************)
C30_QuantitativeSentAsNumbers ==
  \A c \in BagToSet(formCalls) :
     c.op = "save" =>
        \A i \in 1..Len(serverSchemas) :
           serverSchemas[i].value_type = "quantitative" =>
              LET v == c.payload.result_values[serverSchemas[i].key]
              IN  \/ v.t = "undefined"
                  \/ v.t = "number" /\ ~isNaN(v.num)
                  \/ v.t = "array" /\ Len(v.nums) > 0
                                   /\ \A j \in 1..Len(v.nums) : ~isNaN(v.nums[j])

=============================================================================
